---- MODULE Spec2Model ----
(***************************************************************************)
(* A model of KIGFX::CAIRO_GAL (common/gal/cairo/cairo_gal.cpp): the       *)
(* drawing context, its group recorder (display list) and its render       *)
(* targets.  The CAIRO_GAL object is the record held by the variable gal;  *)
(* every method is an operator from a CAIRO_GAL record (and arguments) to  *)
(* the record after the call, and every public method is one action.       *)
(*                                                                         *)
(* Conventions of the model                                                *)
(*  - coordinates, widths and matrix entries are integers; angles are      *)
(*    counted in quarter turns (k stands for k * M_PI / 2), so that sin    *)
(*    and cos are exact;                                                   *)
(*  - a colour component is counted in halves (2 stands for 1.0);          *)
(*  - device coordinates are counted in 1/PixelUnits of a pixel;           *)
(*  - the cairo context records in its field out every fill and stroke it  *)
(*    executes during the current call (the call's rendered output).       *)
(***************************************************************************)
EXTENDS Integers, Sequences, FiniteSets, TLC

\* gal:      the CAIRO_GAL object
\* lastCall: the public method called last and its arguments
\* deleted:  the number of the group with recorded elements that DeleteGroup
\*           erased last (a set of one number, empty before)
\* script:   the calls made since the last BeginGroup, as far as they are
\*           primitive draw operations and state setters only
\* calls:    the number of calls made, up to MaxCalls
VARIABLES gal, lastCall, deleted, script, calls, brd

vars == <<gal, lastCall, deleted, script, calls, brd>>

(***************************************************************************)
(* Bounds of the model.                                                    *)
(***************************************************************************)
\* live groups the group table may hold at once
MaxGroups == 2
\* commands one group may hold
MaxCmds == 3
\* depth of the cairo save/restore stack
MaxStack == 1
\* width in bits of the group counter (unsigned int, 32 in the build)
CounterBits == 2
\* calls of one script, from BeginGroup on
MaxScript == 2
\* calls of one run of a replay scenario
MaxCalls == 6
\* calls of one run of a setter scenario
MaxSetterCalls == 4
\* calls of one run over all public methods
MaxFrameCalls == 4
\* elements of the pending path
MaxPath == 4
\* size of a translation the context may accumulate
MaxShift == 2
\* zoom factor the context may accumulate
MaxZoom == 2

(***************************************************************************)
(* Input values.                                                           *)
(***************************************************************************)
\* device units per pixel
PixelUnits == 2

Red == [r |-> 2, g |-> 0, b |-> 0, a |-> 2]

PaleBlue == [r |-> 0, g |-> 0, b |-> 2, a |-> 1]

Colors == {Red, PaleBlue}

LineArgs == {<<0, 0, 4, 2>>}

\* start, end (axis-parallel) and width of a thick segment
SegmentArgs == {<<0, 0, 4, 0, 2>>}

\* centre and radius
CircleArgs == {<<1, 1, 2>>}

\* centre, radius, start angle, end angle
ArcArgs == {<<0, 0, 2, 1, 0>>}

\* centre, radius, start angle, end angle, width
ArcSegmentArgs == {<<0, 0, 4, 0, 1, 2>>}

RectangleArgs == {<<0, 0, 2, 2>>}

\* a SHAPE_POLY_SET: its outlines, each a SHAPE_LINE_CHAIN
PolygonArgs == {<< [points |-> <<(<<0, 0>>), (<<4, 0>>), (<<0, 4>>)>>, closed |-> TRUE] >>}

CurveArgs == {<<0, 0, 1, 2, 3, 2, 4, 0>>}

Widths == {0, 3}

Depths == {0, 1}

Angles == {1}

Translations == {<<2, 0>>}

\* a mirror in y, and a zoom by two
Scales == {<<1, -1>>, <<2, 2>>}

\* a MATRIX3x3D, as the cairo_matrix_t it is converted to: a mirror in x
Transformations == {[xx |-> -1, yx |-> 0, xy |-> 0, yy |-> 1, x0 |-> 0, y0 |-> 0]}

ScreenSizes == {<<4, 2>>}

\* the cursor: enabled (1) or not, fullscreen (1) or not, position on the screen
Cursors == {<<e, f, 1, 1>> : e \in {0, 1}, f \in {0, 1}}

RenderTargets == {"TARGET_CACHED", "TARGET_NONCACHED", "TARGET_OVERLAY"}

(***************************************************************************)
(* Matrices (cairo_matrix_t) and points.                                   *)
(***************************************************************************)
Matrix(xx, yx, xy, yy, x0, y0) == [xx |-> xx, yx |-> yx, xy |-> xy, yy |-> yy, x0 |-> x0, y0 |-> y0]

\* the matrix that applies b first and a second
MatMul(a, b) ==
    Matrix(a.xx * b.xx + a.xy * b.yx, a.yx * b.xx + a.yy * b.yx,
           a.xx * b.xy + a.xy * b.yy, a.yx * b.xy + a.yy * b.yy,
           a.xx * b.x0 + a.xy * b.y0 + a.x0, a.yx * b.x0 + a.yy * b.y0 + a.y0)

Cos4(k) == CASE k % 4 = 0 -> 1 [] k % 4 = 2 -> -1 [] OTHER -> 0

Sin4(k) == CASE k % 4 = 1 -> 1 [] k % 4 = 3 -> -1 [] OTHER -> 0

UserToDevice(m, p) == <<m.xx * p[1] + m.xy * p[2] + m.x0, m.yx * p[1] + m.yy * p[2] + m.y0>>

\* the inverse of UserToDevice, exact for the matrices the model builds
DeviceToUser(m, p) ==
    LET det == m.xx * m.yy - m.xy * m.yx
        dx  == p[1] - m.x0
        dy  == p[2] - m.y0
    IN  <<(m.yy * dx - m.xy * dy) \div det, (m.xx * dy - m.yx * dx) \div det>>

\* the world -> screen matrix set up by ComputeWorldScreenMatrix
worldScreenMatrix == Matrix(1, 0, 0, 1, 0, 0)

(***************************************************************************)
(* The cairo context: status, current transformation matrix, current path  *)
(* (in device space, as cairo keeps it), source colour, line width, the    *)
(* stack of saved graphics states and the output of the current call.      *)
(* Once a context is in an error status every call on it is a no-op.       *)
(***************************************************************************)
\* a call on a context that was destroyed (or never created) is undefined
Dead(c) == IF c.status = "DESTROYED" THEN [c EXCEPT !.status = "UNDEFINED"] ELSE c

PathElem(k, pts, n) == [k |-> k, pts |-> pts, n |-> n]

MapPath(path, F(_)) == [i \in 1..Len(path) |-> [path[i] EXCEPT !.pts = [j \in 1..Len(@) |-> F(@[j])]]]

cairo_create ==
    [status |-> "SUCCESS", matrix |-> Matrix(1, 0, 0, 1, 0, 0), path |-> <<>>, hasPoint |-> FALSE,
     source |-> [r |-> 0, g |-> 0, b |-> 0, a |-> 2], lineWidth |-> 2, gstack |-> <<>>, out |-> <<>>]

cairo_new_path(c) ==
    IF c.status # "SUCCESS" THEN Dead(c) ELSE [c EXCEPT !.path = <<>>, !.hasPoint = FALSE]

cairo_new_sub_path(c) ==
    IF c.status # "SUCCESS" THEN Dead(c) ELSE [c EXCEPT !.hasPoint = FALSE]

cairo_move_to(c, x, y) ==
    IF c.status # "SUCCESS" THEN Dead(c)
    ELSE [c EXCEPT !.path = Append(@, PathElem("M", <<UserToDevice(c.matrix, <<x, y>>)>>, 0)),
                   !.hasPoint = TRUE]

cairo_line_to(c, x, y) ==
    IF c.status # "SUCCESS" THEN Dead(c)
    ELSE [c EXCEPT !.path = Append(@, PathElem(IF c.hasPoint THEN "L" ELSE "M",
                                               <<UserToDevice(c.matrix, <<x, y>>)>>, 0)),
                   !.hasPoint = TRUE]

cairo_curve_to(c, x1, y1, x2, y2, x3, y3) ==
    LET s == IF c.hasPoint THEN c ELSE cairo_move_to(c, x1, y1)
        P(x, y) == UserToDevice(c.matrix, <<x, y>>)
    IN  IF c.status # "SUCCESS" THEN Dead(c)
        ELSE [s EXCEPT !.path = Append(@, PathElem("C", <<P(x1, y1), P(x2, y2), P(x3, y3)>>, 0))]

cairo_close_path(c) ==
    IF c.status # "SUCCESS" THEN Dead(c)
    ELSE IF ~c.hasPoint THEN c
    ELSE [c EXCEPT !.path = Append(@, PathElem("Z", <<>>, 0))]

\* an arc of dir * sweep quarter turns from angle a1: a line (or a move, when
\* there is no current point) to its start, then the arc to its end
ArcTo(c, xc, yc, radius, a1, sweep, dir) ==
    LET s == cairo_line_to(c, xc + radius * Cos4(a1), yc + radius * Sin4(a1))
        a2 == a1 + 4 + dir * sweep
        P(x, y) == UserToDevice(c.matrix, <<x, y>>)
    IN  IF c.status # "SUCCESS" THEN Dead(c)
        ELSE [s EXCEPT !.path = Append(@, PathElem("A",
                <<P(xc, yc), P(xc + radius * Cos4(a2), yc + radius * Sin4(a2))>>, dir * sweep))]

\* cairo_arc raises angle2 by whole turns until it is not below angle1
cairo_arc(c, xc, yc, radius, a1, a2) ==
    ArcTo(c, xc, yc, radius, a1, IF a2 >= a1 THEN a2 - a1 ELSE (a2 - a1) % 4, 1)

\* cairo_arc_negative lowers angle2 by whole turns until it is not above angle1
cairo_arc_negative(c, xc, yc, radius, a1, a2) ==
    ArcTo(c, xc, yc, radius, a1, IF a2 <= a1 THEN a1 - a2 ELSE (a1 - a2) % 4, -1)

cairo_set_source_rgba(c, col) ==
    IF c.status # "SUCCESS" THEN Dead(c) ELSE [c EXCEPT !.source = col]

\* an opaque source: the alpha of the colour is not used
cairo_set_source_rgb(c, col) ==
    IF c.status # "SUCCESS" THEN Dead(c) ELSE [c EXCEPT !.source = [col EXCEPT !.a = 2]]

cairo_set_line_width(c, w) ==
    IF c.status # "SUCCESS" THEN Dead(c) ELSE [c EXCEPT !.lineWidth = w]

Rendered(c, op) ==
    [op |-> op, path |-> c.path, source |-> c.source, width |-> IF op = "stroke" THEN c.lineWidth ELSE 0]

cairo_fill_preserve(c) ==
    IF c.status # "SUCCESS" THEN Dead(c) ELSE [c EXCEPT !.out = Append(@, Rendered(c, "fill"))]

cairo_fill(c) == cairo_new_path(cairo_fill_preserve(c))

cairo_stroke_preserve(c) ==
    IF c.status # "SUCCESS" THEN Dead(c) ELSE [c EXCEPT !.out = Append(@, Rendered(c, "stroke"))]

cairo_stroke(c) == cairo_new_path(cairo_stroke_preserve(c))

\* the current path in user space
cairo_copy_path(c) == MapPath(c.path, LAMBDA p : DeviceToUser(c.matrix, p))

cairo_append_path(c, path) ==
    IF c.status # "SUCCESS" THEN Dead(c)
    ELSE IF path = <<>> THEN c
    ELSE [c EXCEPT !.path = @ \o MapPath(path, LAMBDA p : UserToDevice(c.matrix, p)),
                   !.hasPoint = TRUE]

cairo_set_matrix(c, m) ==
    IF c.status # "SUCCESS" THEN Dead(c) ELSE [c EXCEPT !.matrix = m]

cairo_transform(c, m) ==
    IF c.status # "SUCCESS" THEN Dead(c) ELSE [c EXCEPT !.matrix = MatMul(@, m)]

cairo_translate(c, tx, ty) == cairo_transform(c, Matrix(1, 0, 0, 1, tx, ty))

cairo_rotate(c, k) == cairo_transform(c, Matrix(Cos4(k), Sin4(k), -Sin4(k), Cos4(k), 0, 0))

cairo_scale(c, sx, sy) == cairo_transform(c, Matrix(sx, 0, 0, sy, 0, 0))

cairo_save(c) ==
    IF c.status # "SUCCESS" THEN Dead(c)
    ELSE [c EXCEPT !.gstack = Append(@, [matrix |-> c.matrix, source |-> c.source, lineWidth |-> c.lineWidth])]

\* a restore without a matching save puts the context in an error status
cairo_restore(c) ==
    IF c.status # "SUCCESS" THEN Dead(c)
    ELSE IF c.gstack = <<>> THEN [c EXCEPT !.status = "INVALID_RESTORE"]
    ELSE LET top == c.gstack[Len(c.gstack)]
         IN  [c EXCEPT !.gstack = SubSeq(@, 1, Len(@) - 1), !.matrix = top.matrix,
                       !.source = top.source, !.lineWidth = top.lineWidth]

\* the user-space length of a device-space distance along each axis
cairo_device_to_user_distance(c, dx, dy) ==
    LET m == [c.matrix EXCEPT !.x0 = 0, !.y0 = 0]
    IN  DeviceToUser(m, <<dx, dy>>)

Abs(x) == IF x < 0 THEN -x ELSE x

Min(x, y) == IF x < y THEN x ELSE y

Max(x, y) == IF x > y THEN x ELSE y

(***************************************************************************)
(* The CAIRO_GAL object.  A GROUP_ELEMENT is a command, its argument (the  *)
(* union's boolArg, intArg or dblArg[], as a tuple of integers) and, for   *)
(* the two path commands, the copied cairo path.  stale is an auxiliary    *)
(* field: it marks an element of a group that DeleteGroup was called on    *)
(* (see DoDeleteGroup); the methods copy it and never set it.              *)
(***************************************************************************)
GROUP_ELEMENT(command, argument, cairoPath) ==
    [command |-> command, argument |-> argument, cairoPath |-> cairoPath, stale |-> FALSE]

ColorArg(col) == <<col.r, col.g, col.b, col.a>>

COLOR4D(arg) == [r |-> arg[1], g |-> arg[2], b |-> arg[3], a |-> arg[4]]

BoolArg(b) == <<IF b THEN 1 ELSE 0>>

\* cairo_format_stride_for_width for GAL_FORMAT: the bytes of a row of
\* pixels of four bytes each
cairo_format_stride_for_width(width) == 4 * width

RECURSIVE AlignedWidth(_)
\* the width of the buffer of wxImage: the next width whose rows of three
\* bytes a pixel end on a word
AlignedWidth(width) == IF (width * 3) % 4 # 0 THEN AlignedWidth(width + 1) ELSE width

\* the word that new[] leaves in a buffer: it is not initialized
Indeterminate == -1

\* the two bitmaps are arrays of bufferSize words, indexed from 0
allocateBitmaps(g) ==
    LET wxBufferWidth == AlignedWidth(g.screenSize[1])
        stride == cairo_format_stride_for_width(wxBufferWidth)
        bufferSize == stride * g.screenSize[2]
    IN  [g EXCEPT !.wxBufferWidth = wxBufferWidth, !.stride = stride, !.bufferSize = bufferSize,
                  !.bitmapBuffer = [k \in 0..(bufferSize - 1) |-> Indeterminate],
                  !.bitmapBufferBackup = [k \in 0..(bufferSize - 1) |-> Indeterminate],
                  !.atSave = <<>>]

\* the object the constructor leaves: isElementAdded and currentTarget are
\* not initialized, the context pointers are not set.  currentGroup is the
\* number of the group the pointer of that name was set to; dangling tells
\* that it points to no group of the table; livePaths counts the cairo_path_t
\* objects that cairo_copy_path has allocated and cairo_path_destroy has not
\* destroyed; trace holds the calls the current call has made on the
\* compositor and on the device context of the window, in their order;
\* touched holds the indexes at which the current call has read or written
\* the bitmaps, and atSave the bitmap as it was at the last SaveScreen made
\* on these bitmaps
CAIRO_GAL(elementAdded, target) ==
  allocateBitmaps(
    [isGrouping |-> FALSE, isInitialized |-> FALSE, validCompositor |-> FALSE, groupCounter |-> 0,
     groups |-> <<>>, currentGroup |-> 0, dangling |-> TRUE, isElementAdded |-> elementAdded,
     isFillEnabled |-> FALSE, isStrokeEnabled |-> TRUE,
     fillColor |-> PaleBlue, strokeColor |-> Red, lineWidth |-> 0, layerDepth |-> 0,
     currentTarget |-> target, buffer |-> 0, mainBuffer |-> 0, overlayBuffer |-> 0,
     screenSize |-> <<4, 2>>, backgroundColor |-> [r |-> 0, g |-> 0, b |-> 0, a |-> 2],
     ctx |-> [cairo_create EXCEPT !.status = "DESTROYED"],
     replayed |-> <<>>, livePaths |-> 0, trace |-> <<>>, undefined |-> FALSE,
     wxBufferWidth |-> 0, stride |-> 0, bufferSize |-> 0, bitmapBuffer |-> <<>>,
     bitmapBufferBackup |-> <<>>, touched |-> {}, atSave |-> <<>>])

\* currentGroup->push_back( groupElement ); undefined when the group that
\* currentGroup points to was erased from the table
push_back(g, command, argument, cairoPath) ==
    IF g.dangling THEN [g EXCEPT !.undefined = TRUE]
    ELSE [g EXCEPT !.groups[g.currentGroup] =
                       Append(@, GROUP_ELEMENT(command, argument, cairoPath))]

flushPath(g) ==
    LET c1 == IF g.isFillEnabled
              THEN LET s == cairo_set_source_rgba(g.ctx, g.fillColor)
                   IN  IF g.isStrokeEnabled THEN cairo_fill_preserve(s) ELSE cairo_fill(s)
              ELSE g.ctx
        c2 == IF g.isStrokeEnabled
              THEN cairo_stroke(cairo_set_source_rgba(c1, g.strokeColor))
              ELSE c1
    IN  [g EXCEPT !.ctx = c2]

storePath(g) ==
    IF ~g.isElementAdded THEN g
    ELSE LET g0 == [g EXCEPT !.isElementAdded = FALSE]
             g2 == IF ~g0.isGrouping
                   THEN LET c1 == IF g0.isFillEnabled
                                  THEN cairo_fill_preserve(cairo_set_source_rgb(g0.ctx, g0.fillColor))
                                  ELSE g0.ctx
                            c2 == IF g0.isStrokeEnabled
                                  THEN cairo_stroke_preserve(cairo_set_source_rgb(c1, g0.strokeColor))
                                  ELSE c1
                        IN  [g0 EXCEPT !.ctx = c2]
                   ELSE LET g1 == IF g0.isStrokeEnabled
                                  THEN [push_back(g0, "CMD_STROKE_PATH", <<>>, cairo_copy_path(g0.ctx))
                                            EXCEPT !.livePaths = @ + 1]
                                  ELSE g0
                        IN  IF g1.isFillEnabled
                            THEN [push_back(g1, "CMD_FILL_PATH", <<>>, cairo_copy_path(g1.ctx))
                                      EXCEPT !.livePaths = @ + 1]
                            ELSE g1
         IN  [g2 EXCEPT !.ctx = cairo_new_path(@)]

(***************************************************************************)
(* Primitive draw operations.                                              *)
(***************************************************************************)
DrawLine(g, a) ==
    LET c == cairo_line_to(cairo_move_to(g.ctx, a[1], a[2]), a[3], a[4])
    IN  [flushPath([g EXCEPT !.ctx = c]) EXCEPT !.isElementAdded = TRUE]

\* a line width set as it is requested
RequestedWidthLine(c, aLineWidth) == cairo_set_line_width(c, aLineWidth)

\* Make lines appear at least 1 pixel wide, no matter of zoom
MinWidthLine(c, aLineWidth) ==
    LET d == cairo_device_to_user_distance(c, PixelUnits, PixelUnits)
        minWidth == Min(Abs(d[1]), Abs(d[2]))
    IN  cairo_set_line_width(c, Max(aLineWidth, minWidth))

SetLineWidth(g, aLineWidth) ==
    LET g1 == [storePath(g) EXCEPT !.lineWidth = aLineWidth]
    IN  IF g1.isGrouping
        THEN push_back(g1, "CMD_SET_LINE_WIDTH", <<aLineWidth>>, <<>>)
        ELSE [g1 EXCEPT !.ctx = MinWidthLine(@, aLineWidth)]

\* atan2 and EuclideanNorm of an axis-parallel vector
Atan2(y, x) == CASE y = 0 /\ x >= 0 -> 0 [] x = 0 /\ y > 0 -> 1 [] y = 0 /\ x < 0 -> 2 [] OTHER -> 3

EuclideanNorm(x, y) == Abs(x) + Abs(y)

DrawSegment(g, a) ==
    LET aWidth == a[5]
        filled == 
            LET g1 == SetLineWidth(g, aWidth)
                c1 == cairo_line_to(cairo_move_to(g1.ctx, a[1], a[2]), a[3], a[4])
                c2 == cairo_stroke(cairo_set_source_rgba(c1, g1.fillColor))
            IN  [g1 EXCEPT !.ctx = c2]
        outline ==
            LET lineAngle  == Atan2(a[4] - a[2], a[3] - a[1])
                lineLength == EuclideanNorm(a[3] - a[1], a[4] - a[2])
                c1 == cairo_set_source_rgba(cairo_save(g.ctx), g.strokeColor)
                c2 == cairo_rotate(cairo_translate(c1, a[1], a[2]), lineAngle)
                c3 == cairo_arc(c2, 0, 0, aWidth \div 2, 1, 3)
                c4 == cairo_arc(c3, lineLength, 0, aWidth \div 2, -1, 1)
                c5 == cairo_line_to(cairo_move_to(c4, 0, aWidth \div 2), lineLength, aWidth \div 2)
                c6 == cairo_line_to(cairo_move_to(c5, 0, -(aWidth \div 2)), lineLength, -(aWidth \div 2))
            IN  flushPath([g EXCEPT !.ctx = cairo_restore(c6)])
    IN  [(IF g.isFillEnabled THEN filled ELSE outline) EXCEPT !.isElementAdded = TRUE]

DrawCircle(g, a) ==
    LET c == cairo_arc(cairo_new_sub_path(g.ctx), a[1], a[2], a[3], 0, 4)
    IN  [flushPath([g EXCEPT !.ctx = c]) EXCEPT !.isElementAdded = TRUE]

DrawArc(g, a) ==
    LET aStartAngle == IF a[4] > a[5] THEN a[5] ELSE a[4]
        aEndAngle   == IF a[4] > a[5] THEN a[4] ELSE a[5]
        c1 == cairo_arc(cairo_new_sub_path(g.ctx), a[1], a[2], a[3], aStartAngle, aEndAngle)
        c2 == cairo_move_to(c1, a[1], a[2])
        c3 == cairo_line_to(c2, Cos4(aStartAngle) * a[3] + a[1], Sin4(aStartAngle) * a[3] + a[2])
        c4 == cairo_line_to(c3, Cos4(aEndAngle) * a[3] + a[1], Sin4(aEndAngle) * a[3] + a[2])
        c  == IF g.isFillEnabled THEN cairo_close_path(c4) ELSE c1
    IN  [flushPath([g EXCEPT !.ctx = c]) EXCEPT !.isElementAdded = TRUE]

DrawArcSegment(g, a) ==
    LET aStartAngle == IF a[4] > a[5] THEN a[5] ELSE a[4]
        aEndAngle   == IF a[4] > a[5] THEN a[4] ELSE a[5]
        aRadius     == a[3]
        width       == a[6] \div 2
        filled ==
            LET c1 == cairo_arc(g.ctx, a[1], a[2], aRadius, aStartAngle, aEndAngle)
            IN  [g EXCEPT !.ctx = cairo_stroke(cairo_set_source_rgba(c1, g.fillColor))]
        outline ==
            LET sx == Cos4(aStartAngle) * aRadius
                sy == Sin4(aStartAngle) * aRadius
                ex == Cos4(aEndAngle) * aRadius
                ey == Sin4(aEndAngle) * aRadius
                c1 == cairo_set_source_rgba(cairo_save(g.ctx), g.strokeColor)
                c2 == cairo_translate(c1, a[1], a[2])
                c3 == cairo_arc(cairo_new_sub_path(c2), 0, 0, aRadius - width, aStartAngle, aEndAngle)
                c4 == cairo_arc(cairo_new_sub_path(c3), 0, 0, aRadius + width, aStartAngle, aEndAngle)
                c5 == cairo_arc_negative(cairo_new_sub_path(c4), sx, sy, width, aStartAngle, aStartAngle + 2)
                c6 == cairo_arc(cairo_new_sub_path(c5), ex, ey, width, aEndAngle, aEndAngle + 2)
            IN  flushPath([g EXCEPT !.ctx = cairo_restore(c6)])
    IN  [(IF g.isFillEnabled THEN filled ELSE outline) EXCEPT !.isElementAdded = TRUE]

DrawRectangle(g, a) ==
    LET c1 == cairo_move_to(g.ctx, a[1], a[2])
        c2 == cairo_line_to(c1, a[3], a[2])
        c3 == cairo_line_to(c2, a[3], a[4])
        c4 == cairo_line_to(c3, a[1], a[4])
    IN  [flushPath([g EXCEPT !.ctx = cairo_close_path(c4)]) EXCEPT !.isElementAdded = TRUE]

\* SHAPE_LINE_CHAIN::CPoint: the index wraps around
CPoint(aLineChain, i) == aLineChain.points[(i % Len(aLineChain.points)) + 1]

RECURSIVE LinesTo(_, _, _, _)
LinesTo(c, aLineChain, i, numPoints) ==
    IF i >= numPoints THEN c
    ELSE LinesTo(cairo_line_to(c, CPoint(aLineChain, i)[1], CPoint(aLineChain, i)[2]),
                 aLineChain, i + 1, numPoints)

drawPoly(g, aLineChain) ==
    IF Len(aLineChain.points) < 2 THEN g
    ELSE LET numPoints == Len(aLineChain.points) + (IF aLineChain.closed THEN 1 ELSE 0)
             start == CPoint(aLineChain, 0)
             c == LinesTo(cairo_move_to(g.ctx, start[1], start[2]), aLineChain, 1, numPoints)
         IN  [flushPath([g EXCEPT !.ctx = c]) EXCEPT !.isElementAdded = TRUE]

RECURSIVE DrawPolygon(_, _)
DrawPolygon(g, aPolySet) ==
    IF aPolySet = <<>> THEN g ELSE DrawPolygon(drawPoly(g, Head(aPolySet)), Tail(aPolySet))

DrawCurve(g, a) ==
    LET c1 == cairo_move_to(g.ctx, a[1], a[2])
        c2 == cairo_curve_to(c1, a[3], a[4], a[5], a[6], a[7], a[8])
        c3 == cairo_line_to(c2, a[7], a[8])
    IN  [flushPath([g EXCEPT !.ctx = c3]) EXCEPT !.isElementAdded = TRUE]

(***************************************************************************)
(* State setters.                                                          *)
(***************************************************************************)
SetIsFill(g, aIsFillEnabled) ==
    LET g1 == [storePath(g) EXCEPT !.isFillEnabled = aIsFillEnabled]
    IN  IF g1.isGrouping THEN push_back(g1, "CMD_SET_FILL", BoolArg(aIsFillEnabled), <<>>) ELSE g1

SetIsStroke(g, aIsStrokeEnabled) ==
    LET g1 == [storePath(g) EXCEPT !.isStrokeEnabled = aIsStrokeEnabled]
    IN  IF g1.isGrouping THEN push_back(g1, "CMD_SET_STROKE", BoolArg(aIsStrokeEnabled), <<>>) ELSE g1

\* a SetStrokeColor that assigns the colour before it stores the path
SetStrokeColorAssignsFirst(g, aColor) ==
    LET g1 == storePath([g EXCEPT !.strokeColor = aColor])
    IN  IF g1.isGrouping THEN push_back(g1, "CMD_SET_STROKECOLOR", ColorArg(g1.strokeColor), <<>>) ELSE g1

SetStrokeColor(g, aColor) ==
    LET g1 == [storePath(g) EXCEPT !.strokeColor = aColor]
    IN  IF g1.isGrouping THEN push_back(g1, "CMD_SET_STROKECOLOR", ColorArg(g1.strokeColor), <<>>) ELSE g1

\* a SetFillColor that records the command whether it is grouping or not
SetFillColorAlwaysRecords(g, aColor) ==
    push_back([storePath(g) EXCEPT !.fillColor = aColor], "CMD_SET_FILLCOLOR", ColorArg(aColor), <<>>)

SetFillColor(g, aColor) ==
    LET g1 == [storePath(g) EXCEPT !.fillColor = aColor]
    IN  IF g1.isGrouping THEN push_back(g1, "CMD_SET_FILLCOLOR", ColorArg(g1.fillColor), <<>>) ELSE g1

SetLayerDepth(g, aLayerDepth) ==
    LET g1 == [g EXCEPT !.layerDepth = aLayerDepth]
    IN  IF g1.isInitialized THEN storePath(g1) ELSE g1

Transform(g, aTransformation) == [g EXCEPT !.ctx = cairo_transform(@, aTransformation)]

\* a Rotate that rotates the context whether it records or not
RotateAlsoApplies(g, aAngle) ==
    LET g1 == storePath(g)
        g2 == IF g1.isGrouping THEN push_back(g1, "CMD_ROTATE", <<aAngle>>, <<>>) ELSE g1
    IN  [g2 EXCEPT !.ctx = cairo_rotate(@, aAngle)]

Rotate(g, aAngle) ==
    LET g1 == storePath(g)
    IN  IF g1.isGrouping THEN push_back(g1, "CMD_ROTATE", <<aAngle>>, <<>>)
        ELSE [g1 EXCEPT !.ctx = cairo_rotate(@, aAngle)]

Translate(g, aTranslation) ==
    LET g1 == storePath(g)
    IN  IF g1.isGrouping THEN push_back(g1, "CMD_TRANSLATE", aTranslation, <<>>)
        ELSE [g1 EXCEPT !.ctx = cairo_translate(@, aTranslation[1], aTranslation[2])]

Scale(g, aScale) ==
    LET g1 == storePath(g)
    IN  IF g1.isGrouping THEN push_back(g1, "CMD_SCALE", aScale, <<>>)
        ELSE [g1 EXCEPT !.ctx = cairo_scale(@, aScale[1], aScale[2])]

Save(g) ==
    LET g1 == storePath(g)
    IN  IF g1.isGrouping THEN push_back(g1, "CMD_SAVE", <<>>, <<>>)
        ELSE [g1 EXCEPT !.ctx = cairo_save(@)]

Restore(g) ==
    LET g1 == storePath(g)
    IN  IF g1.isGrouping THEN push_back(g1, "CMD_RESTORE", <<>>, <<>>)
        ELSE [g1 EXCEPT !.ctx = cairo_restore(@)]

(***************************************************************************)
(* The surface and the compositor.  CAIRO_COMPOSITOR is known here by the  *)
(* calls made on it: buffer is the handle it currently draws to, 0 before  *)
(* a compositor exists.  Every call on it is undefined while the pointer   *)
(* compositor is null, and is entered in trace otherwise.                  *)
(***************************************************************************)
\* a call on the compositor: op with the buffer handle it names or acts on
Compositor(g, op, aBufferHandle) ==
    IF g.mainBuffer = 0 THEN [g EXCEPT !.undefined = TRUE]
    ELSE [g EXCEPT !.trace = Append(@, [op |-> op, buffer |-> aBufferHandle, pending |-> g.isElementAdded])]

cairo_rectangle(c, x, y, w, h) ==
    LET c1 == cairo_line_to(cairo_move_to(c, x, y), x + w, y)
    IN  cairo_close_path(cairo_line_to(cairo_line_to(c1, x + w, y + h), x, y + h))

ClearScreen(g, aColor) ==
    LET c1 == cairo_set_source_rgb(g.ctx, aColor)
        c2 == cairo_rectangle(c1, 0, 0, g.screenSize[1], g.screenSize[2])
    IN  [g EXCEPT !.backgroundColor = aColor, !.ctx = cairo_fill(c2)]

initSurface(g) ==
    IF g.isInitialized THEN g
    ELSE LET g1 == ClearScreen([g EXCEPT !.ctx = [cairo_create EXCEPT !.out = g.ctx.out]],
                               g.backgroundColor)
             c  == cairo_new_path(cairo_set_matrix(g1.ctx, worldScreenMatrix))
         IN  [g1 EXCEPT !.ctx = c, !.isElementAdded = TRUE, !.lineWidth = 0, !.isInitialized = TRUE]

deinitSurface(g) ==
    IF ~g.isInitialized THEN g
    ELSE [g EXCEPT !.ctx = [cairo_create EXCEPT !.status = "DESTROYED", !.out = g.ctx.out],
                   !.isInitialized = FALSE]

setCompositor(g) ==
    [g EXCEPT !.mainBuffer = 1, !.overlayBuffer = 2, !.buffer = 0, !.validCompositor = TRUE]

SetBuffer(g, aBufferHandle) ==
    [Compositor(g, "SetBuffer", aBufferHandle) EXCEPT !.buffer = aBufferHandle]

GetBuffer(g) == Compositor(g, "GetBuffer", g.buffer)

\* clears the buffer the compositor currently draws to
ClearBuffer(g) == Compositor(g, "ClearBuffer", g.buffer)

\* paints the buffer on the main context
DrawBuffer(g, aBufferHandle) == Compositor(g, "DrawBuffer", aBufferHandle)

\* the two lines of the cross-hair, drawn on the device context; cursor
\* holds the members of the base class GAL that blitCursor reads:
\* <<isCursorEnabled, fullscreenCursor, x and y of the cursor on the screen>>
blitCursor(g, cursor) ==
    IF cursor[1] # 1 THEN g
    ELSE LET p == <<cursor[3], cursor[4]>>
             cursorSize == IF cursor[2] = 1 THEN 8000 ELSE 80
             Line(a, b) == [op |-> "DrawLine", buffer |-> <<a, b>>, pending |-> g.isElementAdded]
         IN  [g EXCEPT !.trace = @ \o
                 <<Line(<<p[1] - cursorSize \div 2, p[2]>>, <<p[1] + cursorSize \div 2, p[2]>>),
                   Line(<<p[1], p[2] - cursorSize \div 2>>, <<p[1], p[2] + cursorSize \div 2>>)>>]

BeginDrawing(g) ==
    LET g1 == initSurface(g)
        g2 == IF ~g1.validCompositor THEN setCompositor(g1) ELSE g1
    IN  SetBuffer(g2, g2.mainBuffer)

Flush(g) == storePath(g)

\* an EndDrawing that draws the cursor before it composes the buffers
EndDrawingCursorFirst(g, cursor) ==
    LET g1 == blitCursor(Flush(g), cursor)
        g2 == DrawBuffer(DrawBuffer(g1, g.mainBuffer), g.overlayBuffer)
    IN  deinitSurface([g2 EXCEPT !.trace = Append(@, [op |-> "Blit", buffer |-> 0, pending |-> g2.isElementAdded])])

EndDrawing(g, cursor) ==
    LET g1 == DrawBuffer(DrawBuffer(Flush(g), g.mainBuffer), g.overlayBuffer)
        g2 == blitCursor(g1, cursor)
    IN  deinitSurface([g2 EXCEPT !.trace = Append(@, [op |-> "Blit", buffer |-> 0, pending |-> g2.isElementAdded])])

\* the indexes offset + i that the loops of SaveScreen and RestoreScreen
\* visit: in their t-th round i is t % stride, and offset, to which stride is
\* added in each round of the inner loop, is t * stride
Visited(g) == {t * g.stride + (t % g.stride) : t \in 0..(g.screenSize[2] * g.stride - 1)}

\* an access beyond the end of a buffer is undefined: a read gives the word
\* of overrun, a write falls on the word of number overrun.hit of the other
\* buffer, or on neither buffer when that is no index of it
SaveScreen(g, overrun) ==
    LET beyond == {k \in Visited(g) : k >= g.bufferSize}
    IN  [g EXCEPT !.bitmapBufferBackup = [k \in DOMAIN @ |-> IF k \in Visited(g) THEN g.bitmapBuffer[k] ELSE @[k]],
                  !.bitmapBuffer = [k \in DOMAIN @ |-> IF beyond # {} /\ k = overrun.hit THEN overrun.word ELSE @[k]],
                  !.touched = Visited(g),
                  !.atSave = g.bitmapBuffer]

RestoreScreen(g, overrun) ==
    LET beyond == {k \in Visited(g) : k >= g.bufferSize}
    IN  [g EXCEPT !.bitmapBuffer = [k \in DOMAIN @ |-> IF k \in Visited(g) THEN g.bitmapBufferBackup[k] ELSE @[k]],
                  !.bitmapBufferBackup = [k \in DOMAIN @ |-> IF beyond # {} /\ k = overrun.hit THEN overrun.word ELSE @[k]],
                  !.touched = Visited(g)]

\* the surface is created for the data of bitmapBuffer: what cairo draws on
\* it is written to the words of the bitmap
PaintWord(g, k, word) ==
    [g EXCEPT !.bitmapBuffer = [n \in DOMAIN @ |-> IF n = k THEN word ELSE @[n]]]

ResizeScreen(g, aSize) ==
    LET g1 == allocateBitmaps([g EXCEPT !.screenSize = aSize])
        g2 == IF g1.validCompositor THEN Compositor(g1, "Resize", 0) ELSE g1
    IN  [g2 EXCEPT !.validCompositor = FALSE]

SetTarget(g, aTarget) ==
    IF ~g.validCompositor THEN g
    ELSE LET g1 == IF g.isInitialized THEN storePath(g) ELSE g
             g2 == SetBuffer(g1, IF aTarget = "TARGET_OVERLAY" THEN g1.overlayBuffer ELSE g1.mainBuffer)
         IN  [g2 EXCEPT !.currentTarget = aTarget]

GetTarget(g) == g.currentTarget

\* a ClearTarget that leaves the compositor on the buffer it has cleared
ClearTargetKeepsBuffer(g, aTarget) ==
    LET g1 == GetBuffer(g)
        g2 == SetBuffer(g1, IF aTarget = "TARGET_OVERLAY" THEN g1.overlayBuffer ELSE g1.mainBuffer)
    IN  ClearBuffer(g2)

ClearTarget(g, aTarget) ==
    LET g1 == GetBuffer(g)
        currentBuffer == g1.buffer
        g2 == SetBuffer(g1, IF aTarget = "TARGET_OVERLAY" THEN g1.overlayBuffer ELSE g1.mainBuffer)
    IN  SetBuffer(ClearBuffer(g2), currentBuffer)

(***************************************************************************)
(* The group recorder.  groups is the std::map from group number to GROUP. *)
(***************************************************************************)
\* unsigned int -> int, as the build converts it
ToInt(u) == IF u >= 2 ^ (CounterBits - 1) THEN u - 2 ^ CounterBits ELSE u

\* std::map::operator[]: an absent key is inserted with an empty GROUP
Subscript(groups, aGroupNumber) ==
    IF aGroupNumber \in DOMAIN groups THEN groups ELSE (aGroupNumber :> <<>>) @@ groups

RECURSIVE FreeCounter(_, _)
FreeCounter(groups, counter) ==
    IF ToInt(counter) \in DOMAIN groups
    THEN FreeCounter(groups, (counter + 1) % 2 ^ CounterBits)
    ELSE counter

\* the value returned; BeginGroup stores the counter's post-increment
getNewGroupNumber(g) == FreeCounter(g.groups, g.groupCounter)

BeginGroup(g) ==
    LET g1 == storePath(initSurface(g))
        n  == getNewGroupNumber(g1)
        groupNumber == ToInt(n)
    IN  [g1 EXCEPT !.groupCounter = (n + 1) % 2 ^ CounterBits,
                   !.groups = Subscript(@, groupNumber),
                   !.currentGroup = groupNumber, !.dangling = FALSE, !.isGrouping = TRUE]

EndGroup(g) == deinitSurface([storePath(g) EXCEPT !.isGrouping = FALSE])

RECURSIVE DrawGroup(_, _), ExecuteFrom(_, _, _)
Execute(g, it) ==
    LET g1 == [g EXCEPT !.replayed = Append(@, it)]
        c  == g1.ctx
        cmd == it.command
        arg == it.argument
    IN  CASE cmd = "CMD_SET_FILL" -> [g1 EXCEPT !.isFillEnabled = (arg[1] = 1)]
          [] cmd = "CMD_SET_STROKE" -> [g1 EXCEPT !.isStrokeEnabled = (arg[1] = 1)]
          [] cmd = "CMD_SET_FILLCOLOR" -> [g1 EXCEPT !.fillColor = COLOR4D(arg)]
          [] cmd = "CMD_SET_STROKECOLOR" -> [g1 EXCEPT !.strokeColor = COLOR4D(arg)]
          [] cmd = "CMD_SET_LINE_WIDTH" -> [g1 EXCEPT !.ctx = MinWidthLine(c, arg[1])]
          [] cmd = "CMD_STROKE_PATH" ->
                [g1 EXCEPT !.ctx = cairo_stroke(cairo_append_path(cairo_set_source_rgb(c, g1.strokeColor), it.cairoPath))]
          [] cmd = "CMD_FILL_PATH" ->
                [g1 EXCEPT !.ctx = cairo_fill(cairo_append_path(cairo_set_source_rgb(c, g1.fillColor), it.cairoPath))]
          [] cmd = "CMD_ROTATE" -> [g1 EXCEPT !.ctx = cairo_rotate(c, arg[1])]
          [] cmd = "CMD_TRANSLATE" -> [g1 EXCEPT !.ctx = cairo_translate(c, arg[1], arg[2])]
          [] cmd = "CMD_SCALE" -> [g1 EXCEPT !.ctx = cairo_scale(c, arg[1], arg[2])]
          [] cmd = "CMD_SAVE" -> [g1 EXCEPT !.ctx = cairo_save(c)]
          [] cmd = "CMD_RESTORE" -> [g1 EXCEPT !.ctx = cairo_restore(c)]
          [] cmd = "CMD_CALL_GROUP" -> DrawGroup(g1, arg[1])
          [] OTHER -> g1

ExecuteFrom(g, aGroupNumber, i) ==
    IF i > Len(g.groups[aGroupNumber]) THEN g
    ELSE ExecuteFrom(Execute(g, g.groups[aGroupNumber][i]), aGroupNumber, i + 1)

\* a DrawGroup that, while grouping, records a call of the group instead of
\* replaying it
DrawGroupRecordsCall(g, aGroupNumber) ==
    LET g1 == storePath(g)
    IN  IF g1.isGrouping THEN push_back(g1, "CMD_CALL_GROUP", <<aGroupNumber>>, <<>>)
        ELSE ExecuteFrom([g1 EXCEPT !.groups = Subscript(@, aGroupNumber)], aGroupNumber, 1)

DrawGroup(g, aGroupNumber) ==
    LET g1 == storePath(g)
    IN  ExecuteFrom([g1 EXCEPT !.groups = Subscript(@, aGroupNumber)], aGroupNumber, 1)

\* a ChangeGroupColor that does not test the command of the element
ChangeGroupColorOfAnyCommand(g, aGroupNumber, aNewColor) ==
    LET g1 == storePath(g)
        group == Subscript(g1.groups, aGroupNumber)[aGroupNumber]
    IN  [g1 EXCEPT !.groups = (aGroupNumber :> [i \in 1..Len(group) |->
                                   [group[i] EXCEPT !.argument = ColorArg(aNewColor)]]) @@ @]

ChangeGroupColor(g, aGroupNumber, aNewColor) ==
    LET g1 == storePath(g)
        Recolor(it) == IF it.command \in {"CMD_SET_FILLCOLOR", "CMD_SET_STROKECOLOR"}
                       THEN [it EXCEPT !.argument = ColorArg(aNewColor)]
                       ELSE it
        group == Subscript(g1.groups, aGroupNumber)[aGroupNumber]
    IN  [g1 EXCEPT !.groups = (aGroupNumber :> [i \in 1..Len(group) |-> Recolor(group[i])]) @@ @]

ChangeGroupDepth(g, aGroupNumber, aDepth) == g

\* the elements of a group that own a cairo path
PathElements(group) ==
    {i \in 1..Len(group) : group[i].command \in {"CMD_FILL_PATH", "CMD_STROKE_PATH"}}

\* the loop of DeleteGroup: one cairo_path_destroy for each path element
DestroyPaths(g, aGroupNumber) ==
    [g EXCEPT !.livePaths = @ - Cardinality(PathElements(Subscript(g.groups, aGroupNumber)[aGroupNumber]))]

\* a DeleteGroup that destroys the paths and leaves the entry in the table
DeleteGroupKeepsEntry(g, aGroupNumber) ==
    [DestroyPaths(storePath(g), aGroupNumber) EXCEPT !.dangling = @ \/ aGroupNumber = g.currentGroup]

DeleteGroup(g, aGroupNumber) ==
    LET g1 == DestroyPaths(storePath(g), aGroupNumber)
    IN  [g1 EXCEPT !.groups = [n \in DOMAIN @ \ {aGroupNumber} |-> @[n]],
                   !.dangling = @ \/ aGroupNumber = g1.currentGroup]

RECURSIVE DeleteDownFrom(_, _)
DeleteDownFrom(g, i) == IF i < 0 THEN g ELSE DeleteDownFrom(DeleteGroup(g, i), i - 1)

ClearCache(g) == DeleteDownFrom(g, Cardinality(DOMAIN g.groups) - 1)

(***************************************************************************)
(* The state machine: one action for each public method.  A call starts    *)
(* with an empty output record; a call whose behaviour is undefined (it    *)
(* uses a destroyed context, the null compositor or an erased group) is    *)
(* not taken, and neither is one that leaves the bounds of the model.      *)
(***************************************************************************)
Start == [gal EXCEPT !.ctx.out = <<>>, !.replayed = <<>>, !.trace = <<>>, !.touched = {}]

WithinBounds(g) ==
    /\ Cardinality(DOMAIN g.groups) <= MaxGroups
    /\ \A n \in DOMAIN g.groups : Len(g.groups[n]) <= MaxCmds
    /\ Len(g.ctx.gstack) <= MaxStack
    /\ Len(g.ctx.path) <= MaxPath
    /\ Abs(g.ctx.matrix.x0) <= MaxShift /\ Abs(g.ctx.matrix.y0) <= MaxShift
    /\ Abs(g.ctx.matrix.xx) + Abs(g.ctx.matrix.xy) <= MaxZoom
    /\ Abs(g.ctx.matrix.yx) + Abs(g.ctx.matrix.yy) <= MaxZoom

Call(name, args) == [name |-> name, args |-> args]

\* the group with recorded elements that a DeleteGroup call names
Erased(call) ==
    IF call.name = "DeleteGroup"
    THEN {n \in {call.args[1]} \cap DOMAIN gal.groups : gal.groups[n] # <<>>}
    ELSE {}

Primitives ==
    {"DrawLine", "DrawSegment", "DrawCircle", "DrawArc", "DrawArcSegment", "DrawRectangle",
     "DrawPolygon", "DrawCurve"}

Setters ==
    {"SetIsFill", "SetIsStroke", "SetStrokeColor", "SetFillColor", "SetLineWidth",
     "Rotate", "Translate", "Scale", "Save", "Restore"}

\* no script: no group yet, or calls of other kinds were made on the group
NoScript == [pure |-> FALSE, ops |-> <<>>]

\* the script after call: BeginGroup starts it, a primitive or a setter made
\* while grouping extends it; EndGroup, BeginDrawing, EndDrawing and a
\* DrawGroup made while not grouping leave it, any other call ends it
Scripted(call) ==
    CASE call.name = "BeginGroup" -> [pure |-> TRUE, ops |-> <<>>]
      [] call.name \in Primitives \cup Setters ->
            IF gal.isGrouping /\ script.pure THEN [script EXCEPT !.ops = Append(@, call)] ELSE script
      [] call.name \in {"EndGroup", "BeginDrawing", "EndDrawing"} -> script
      [] call.name = "DrawGroup" /\ ~gal.isGrouping -> script
      [] OTHER -> NoScript

Do(call, g) ==
    /\ ~g.undefined /\ g.ctx.status # "UNDEFINED"
    /\ WithinBounds(g)
    /\ Len(Scripted(call).ops) <= MaxScript
    /\ gal' = g
    /\ lastCall' = call
    /\ deleted' = IF Erased(call) # {} THEN Erased(call) ELSE deleted
    /\ script' = Scripted(call)
    /\ calls' = IF calls < MaxCalls THEN calls + 1 ELSE calls
    /\ brd' = brd

GroupNumbers == -(2 ^ (CounterBits - 1)) .. 2 ^ (CounterBits - 1) - 1

DoDrawLine ==
    \E a \in LineArgs :
        /\ Do(Call("DrawLine", a), DrawLine(Start, a))

DoDrawSegment ==
    \E a \in SegmentArgs :
        /\ Do(Call("DrawSegment", a), DrawSegment(Start, a))

DoDrawCircle ==
    \E a \in CircleArgs :
        /\ Do(Call("DrawCircle", a), DrawCircle(Start, a))

DoDrawArc ==
    \E a \in ArcArgs :
        /\ Do(Call("DrawArc", a), DrawArc(Start, a))

DoDrawArcSegment ==
    \E a \in ArcSegmentArgs :
        /\ Do(Call("DrawArcSegment", a), DrawArcSegment(Start, a))

DoDrawRectangle ==
    \E a \in RectangleArgs :
        /\ Do(Call("DrawRectangle", a), DrawRectangle(Start, a))

DoDrawPolygon ==
    \E a \in PolygonArgs :
        /\ Do(Call("DrawPolygon", a), DrawPolygon(Start, a))

DoDrawCurve ==
    \E a \in CurveArgs :
        /\ Do(Call("DrawCurve", a), DrawCurve(Start, a))

DoSetIsFill ==
    \E b \in BOOLEAN :
        /\ Do(Call("SetIsFill", BoolArg(b)), SetIsFill(Start, b))

DoSetIsStroke ==
    \E b \in BOOLEAN :
        /\ Do(Call("SetIsStroke", BoolArg(b)), SetIsStroke(Start, b))

DoSetStrokeColor ==
    \E c \in Colors :
        /\ Do(Call("SetStrokeColor", ColorArg(c)), SetStrokeColor(Start, c))

DoSetFillColor ==
    \E c \in Colors :
        /\ Do(Call("SetFillColor", ColorArg(c)), SetFillColor(Start, c))

DoSetLineWidth ==
    \E w \in Widths :
        /\ Do(Call("SetLineWidth", <<w>>), SetLineWidth(Start, w))

DoSetLayerDepth ==
    \E d \in Depths :
        /\ Do(Call("SetLayerDepth", <<d>>), SetLayerDepth(Start, d))

DoTransform ==
    \E m \in Transformations :
        /\ Do(Call("Transform", <<m>>), Transform(Start, m))

DoRotate ==
    \E k \in Angles :
        /\ Do(Call("Rotate", <<k>>), Rotate(Start, k))

DoTranslate ==
    \E t \in Translations :
        /\ Do(Call("Translate", t), Translate(Start, t))

DoScale ==
    \E k \in Scales :
        /\ Do(Call("Scale", k), Scale(Start, k))

DoSave ==
    /\ Do(Call("Save", <<>>), Save(Start))

DoRestore ==
    /\ Do(Call("Restore", <<>>), Restore(Start))

DoBeginGroup ==
    /\ Do(Call("BeginGroup", <<>>), BeginGroup(Start))

DoEndGroup ==
    /\ Do(Call("EndGroup", <<>>), EndGroup(Start))

DoDrawGroup ==
    \E n \in GroupNumbers :
        /\ Do(Call("DrawGroup", <<n>>), DrawGroup(Start, n))

DoChangeGroupColor ==
    \E n \in GroupNumbers, c \in Colors :
        /\ Do(Call("ChangeGroupColor", <<n>> \o ColorArg(c)), ChangeGroupColor(Start, n, c))

DoChangeGroupDepth ==
    \E n \in GroupNumbers, d \in Depths :
        /\ Do(Call("ChangeGroupDepth", <<n, d>>), ChangeGroupDepth(Start, n, d))

\* what is left in the table of a group DeleteGroup was called on is stale
MarkStale(g, aGroupNumber) ==
    IF aGroupNumber \notin DOMAIN g.groups THEN g
    ELSE [g EXCEPT !.groups[aGroupNumber] = [i \in 1..Len(@) |-> [@[i] EXCEPT !.stale = TRUE]]]

DoDeleteGroup ==
    \E n \in GroupNumbers :
        /\ Do(Call("DeleteGroup", <<n>>), MarkStale(DeleteGroup(Start, n), n))

DoClearCache ==
    /\ Do(Call("ClearCache", <<>>), ClearCache(Start))

DoBeginDrawing ==
    /\ Do(Call("BeginDrawing", <<>>), BeginDrawing(Start))

\* the cursor settings are those the base class holds at the call
DoEndDrawing ==
    \E cursor \in Cursors :
        /\ Do(Call("EndDrawing", cursor), EndDrawing(Start, cursor))

DoResizeScreen ==
    \E z \in ScreenSizes :
        /\ Do(Call("ResizeScreen", z), ResizeScreen(Start, z))

DoSetTarget ==
    \E t \in RenderTargets :
        /\ Do(Call("SetTarget", <<t>>), SetTarget(Start, t))

DoClearTarget ==
    \E t \in RenderTargets :
        /\ Do(Call("ClearTarget", <<t>>), ClearTarget(Start, t))

\* what the accesses beyond the bitmaps may meet
Overruns == {[word |-> w, hit |-> h] : w \in {Indeterminate, 1}, h \in {-1, 2}}

DoSaveScreen ==
    \E overrun \in Overruns :
        /\ Do(Call("SaveScreen", <<>>), SaveScreen(Start, overrun))

DoRestoreScreen ==
    \E overrun \in Overruns :
        /\ Do(Call("RestoreScreen", <<>>), RestoreScreen(Start, overrun))

\* the words that are painted
PaintedWords == {0, 1, 17}

DoPaintWord ==
    \E k \in PaintedWords \cap DOMAIN gal.bitmapBuffer, word \in {0, 1} :
        /\ Do(Call("PaintWord", <<k, word>>), PaintWord(Start, k, word))

\* the state the constructor leaves, the uninitialized currentTarget being
\* one of targets
Constructed(targets) ==
    /\ gal \in {CAIRO_GAL(e, t) : e \in BOOLEAN, t \in targets}
    /\ lastCall = Call("CAIRO_GAL", <<>>)
    /\ deleted = {}
    /\ script = NoScript
    /\ calls = 0
    /\ brd = <<>>

Init == Constructed(RenderTargets)

Next ==
    \/ DoDrawLine \/ DoDrawSegment \/ DoDrawCircle \/ DoDrawArc
    \/ DoDrawArcSegment \/ DoDrawRectangle \/ DoDrawPolygon \/ DoDrawCurve
    \/ DoSetIsFill \/ DoSetIsStroke \/ DoSetStrokeColor \/ DoSetFillColor
    \/ DoSetLineWidth \/ DoSetLayerDepth \/ DoTransform
    \/ DoRotate \/ DoTranslate \/ DoScale \/ DoSave \/ DoRestore
    \/ DoBeginGroup \/ DoEndGroup \/ DoDrawGroup \/ DoChangeGroupColor
    \/ DoChangeGroupDepth \/ DoDeleteGroup \/ DoClearCache
    \/ DoBeginDrawing \/ DoEndDrawing \/ DoResizeScreen \/ DoSetTarget \/ DoClearTarget
    \/ DoSaveScreen \/ DoRestoreScreen

Spec == Init /\ [][Next]_vars

(***************************************************************************)
(* The group table under the calls that create and delete groups.          *)
(***************************************************************************)
InitCache == Constructed({"TARGET_CACHED"})

NextCache == DoBeginGroup \/ DoEndGroup \/ DoDeleteGroup \/ DoClearCache

SpecCache == InitCache /\ [][NextCache]_vars

(***************************************************************************)
(* The group table under the calls that take a group number.               *)
(***************************************************************************)
InitHandles == Constructed({"TARGET_CACHED"})

NextHandles == DoBeginGroup \/ DoEndGroup \/ DoDeleteGroup \/ DoDrawGroup \/ DoChangeGroupColor

SpecHandles == InitHandles /\ [][NextHandles]_vars

(***************************************************************************)
(* Groups recorded, deleted and replayed: one primitive to record and      *)
(* BeginDrawing to replay on.                                              *)
(***************************************************************************)
InitTable == Constructed({"TARGET_CACHED"})

NextTable ==
    \/ DoBeginGroup \/ DoEndGroup \/ DoDeleteGroup
    \/ DoDrawGroup \/ DoBeginDrawing \/ DoDrawLine

SpecTable == InitTable /\ [][NextTable]_vars

(***************************************************************************)
(* Runs of at most MaxFrameCalls calls of any public method.               *)
(***************************************************************************)
InitFrame == Constructed({"TARGET_CACHED"})

NextFrame ==
    \/ calls < MaxFrameCalls /\ DoDrawLine
    \/ calls < MaxFrameCalls /\ DoDrawSegment
    \/ calls < MaxFrameCalls /\ DoDrawCircle
    \/ calls < MaxFrameCalls /\ DoDrawArc
    \/ calls < MaxFrameCalls /\ DoDrawArcSegment
    \/ calls < MaxFrameCalls /\ DoDrawRectangle
    \/ calls < MaxFrameCalls /\ DoDrawPolygon
    \/ calls < MaxFrameCalls /\ DoDrawCurve
    \/ calls < MaxFrameCalls /\ DoSetIsFill
    \/ calls < MaxFrameCalls /\ DoSetIsStroke
    \/ calls < MaxFrameCalls /\ DoSetStrokeColor
    \/ calls < MaxFrameCalls /\ DoSetFillColor
    \/ calls < MaxFrameCalls /\ DoSetLineWidth
    \/ calls < MaxFrameCalls /\ DoSetLayerDepth
    \/ calls < MaxFrameCalls /\ DoTransform
    \/ calls < MaxFrameCalls /\ DoRotate
    \/ calls < MaxFrameCalls /\ DoTranslate
    \/ calls < MaxFrameCalls /\ DoScale
    \/ calls < MaxFrameCalls /\ DoSave
    \/ calls < MaxFrameCalls /\ DoRestore
    \/ calls < MaxFrameCalls /\ DoBeginGroup
    \/ calls < MaxFrameCalls /\ DoEndGroup
    \/ calls < MaxFrameCalls /\ DoDrawGroup
    \/ calls < MaxFrameCalls /\ DoChangeGroupColor
    \/ calls < MaxFrameCalls /\ DoChangeGroupDepth
    \/ calls < MaxFrameCalls /\ DoDeleteGroup
    \/ calls < MaxFrameCalls /\ DoClearCache
    \/ calls < MaxFrameCalls /\ DoBeginDrawing
    \/ calls < MaxFrameCalls /\ DoEndDrawing
    \/ calls < MaxFrameCalls /\ DoResizeScreen
    \/ calls < MaxFrameCalls /\ DoSetTarget
    \/ calls < MaxFrameCalls /\ DoClearTarget

SpecFrame == InitFrame /\ [][NextFrame]_vars

(***************************************************************************)
(* The render targets: drawing passes, resizing, and the calls that select *)
(* and clear a target, with one primitive to leave a path pending.         *)
(***************************************************************************)
InitTargets == Constructed({"TARGET_CACHED"})

NextTargets ==
    \/ DoBeginDrawing \/ DoEndDrawing \/ DoResizeScreen
    \/ DoSetTarget \/ DoClearTarget \/ DoDrawLine

SpecTargets == InitTargets /\ [][NextTargets]_vars

(***************************************************************************)
(* Runs of at most MaxCalls calls that set, record and replay line widths  *)
(* under a zoom.                                                           *)
(***************************************************************************)
InitWidth == Constructed({"TARGET_CACHED"})

NextWidth ==
    \/ calls < MaxCalls /\ DoBeginDrawing
    \/ calls < MaxCalls /\ DoBeginGroup
    \/ calls < MaxCalls /\ DoEndGroup
    \/ calls < MaxCalls /\ DoSetLineWidth
    \/ calls < MaxCalls /\ DoScale
    \/ calls < MaxCalls /\ DoRotate
    \/ calls < MaxCalls /\ DoDrawSegment
    \/ calls < MaxCalls /\ DoDrawGroup

SpecWidth == InitWidth /\ [][NextWidth]_vars

(***************************************************************************)
(* Groups with recorded paths under the calls that delete groups.          *)
(***************************************************************************)
InitPaths == Constructed({"TARGET_CACHED"})

NextPaths ==
    \/ DoBeginGroup \/ DoEndGroup \/ DoDrawLine
    \/ DoDeleteGroup \/ DoClearCache

SpecPaths == InitPaths /\ [][NextPaths]_vars

(***************************************************************************)
(* Runs of at most MaxSetterCalls calls: a surface, a group, one primitive *)
(* and the state setters.                                                  *)
(***************************************************************************)
InitSetters == Init

NextSetters ==
    \/ calls < MaxSetterCalls /\ DoBeginDrawing
    \/ calls < MaxSetterCalls /\ DoBeginGroup
    \/ calls < MaxSetterCalls /\ DoEndGroup
    \/ calls < MaxSetterCalls /\ DoDrawLine
    \/ calls < MaxSetterCalls /\ DoSetIsFill
    \/ calls < MaxSetterCalls /\ DoSetIsStroke
    \/ calls < MaxSetterCalls /\ DoSetStrokeColor
    \/ calls < MaxSetterCalls /\ DoSetFillColor
    \/ calls < MaxSetterCalls /\ DoSetLineWidth
    \/ calls < MaxSetterCalls /\ DoSetLayerDepth
    \/ calls < MaxSetterCalls /\ DoSetTarget
    \/ calls < MaxSetterCalls /\ DoRotate
    \/ calls < MaxSetterCalls /\ DoTranslate
    \/ calls < MaxSetterCalls /\ DoScale
    \/ calls < MaxSetterCalls /\ DoSave
    \/ calls < MaxSetterCalls /\ DoRestore

SpecSetters == InitSetters /\ [][NextSetters]_vars

(***************************************************************************)
(* Runs of at most MaxCalls calls that record a group and replay it.       *)
(***************************************************************************)
InitReplay == Constructed({"TARGET_CACHED"})

NextReplay ==
    \/ calls < MaxCalls /\ DoBeginDrawing
    \/ calls < MaxCalls /\ DoBeginGroup
    \/ calls < MaxCalls /\ DoEndGroup
    \/ calls < MaxCalls /\ DoDrawRectangle
    \/ calls < MaxCalls /\ DoSetIsFill
    \/ calls < MaxCalls /\ DoSetStrokeColor
    \/ calls < MaxCalls /\ DoChangeGroupColor
    \/ calls < MaxCalls /\ DoDrawGroup

SpecReplay == InitReplay /\ [][NextReplay]_vars

(***************************************************************************)
(* Drawing passes: BeginDrawing, then groups, a primitive and a setter,    *)
(* then EndDrawing.                                                        *)
(***************************************************************************)
\* BeginDrawing has been called and EndDrawing has not been called since
InDrawingPass == calls > 0 /\ lastCall.name # "EndDrawing"

InitPass == Constructed({"TARGET_CACHED"})

NextPass ==
    \/ ~InDrawingPass /\ DoBeginDrawing
    \/ InDrawingPass /\ DoBeginGroup
    \/ InDrawingPass /\ DoEndGroup
    \/ InDrawingPass /\ DoDrawLine
    \/ InDrawingPass /\ DoSetIsFill
    \/ InDrawingPass /\ DoEndDrawing

SpecPass == InitPass /\ [][NextPass]_vars

(***************************************************************************)
(* The bitmap and its backup: windows of several sizes, resized, painted,  *)
(* saved and restored.                                                     *)
(***************************************************************************)
\* the sizes of the parent window
ParentSizes == {<<0, 0>>, <<1, 1>>, <<4, 2>>}

InitScreen ==
    /\ gal \in {allocateBitmaps([CAIRO_GAL(FALSE, "TARGET_CACHED") EXCEPT !.screenSize = z]) : z \in ParentSizes}
    /\ lastCall = Call("CAIRO_GAL", <<>>)
    /\ deleted = {}
    /\ script = NoScript
    /\ calls = 0
    /\ brd = <<>>

NextScreen == DoSaveScreen \/ DoRestoreScreen \/ DoPaintWord \/ DoResizeScreen

SpecScreen == InitScreen /\ [][NextScreen]_vars

(***************************************************************************)
(* A script issued while not grouping.                                     *)
(***************************************************************************)
\* the call made on g
Apply(g, call) ==
    CASE call.name = "DrawLine" -> DrawLine(g, call.args)
      [] call.name = "DrawSegment" -> DrawSegment(g, call.args)
      [] call.name = "DrawCircle" -> DrawCircle(g, call.args)
      [] call.name = "DrawArc" -> DrawArc(g, call.args)
      [] call.name = "DrawArcSegment" -> DrawArcSegment(g, call.args)
      [] call.name = "DrawRectangle" -> DrawRectangle(g, call.args)
      [] call.name = "DrawPolygon" -> DrawPolygon(g, call.args)
      [] call.name = "DrawCurve" -> DrawCurve(g, call.args)
      [] call.name = "SetIsFill" -> SetIsFill(g, call.args[1] = 1)
      [] call.name = "SetIsStroke" -> SetIsStroke(g, call.args[1] = 1)
      [] call.name = "SetStrokeColor" -> SetStrokeColor(g, COLOR4D(call.args))
      [] call.name = "SetFillColor" -> SetFillColor(g, COLOR4D(call.args))
      [] call.name = "SetLineWidth" -> SetLineWidth(g, call.args[1])
      [] call.name = "Rotate" -> Rotate(g, call.args[1])
      [] call.name = "Translate" -> Translate(g, call.args)
      [] call.name = "Scale" -> Scale(g, call.args)
      [] call.name = "Save" -> Save(g)
      [] call.name = "Restore" -> Restore(g)
      [] OTHER -> g

RECURSIVE RunScript(_, _)
RunScript(g, ops) == IF ops = <<>> THEN g ELSE RunScript(Apply(g, Head(ops)), Tail(ops))

\* the fills and strokes of out that draw something, without the line width
Visible(out) ==
    LET Shown(o) == o.path # <<>>
        drawn == SelectSeq(out, Shown)
    IN  [i \in 1..Len(drawn) |-> [op |-> drawn[i].op, path |-> drawn[i].path, source |-> drawn[i].source]]

(***************************************************************************)
(* Properties of recording and replay.                                     *)
(***************************************************************************)
\* C1: DrawGroup of a group recorded from a script of primitive draw
\* operations and state setters produces the same fills and strokes (path,
\* colour with alpha, order) as the script issued while not grouping from
\* the drawing state the replay starts from.
C1_ReplayFidelity ==
    [][(/\ lastCall'.name = "DrawGroup" /\ lastCall'.args[1] = gal.currentGroup
        /\ script.pure /\ ~gal.isGrouping /\ gal.isInitialized)
       => Visible(gal'.ctx.out) = Visible(RunScript(Start, script.ops).ctx.out)]_vars

\* C3: after ChangeGroupColor(h, C), DrawGroup(h) strokes or fills every
\* path of the group with colour C, and ChangeGroupColor leaves the paths
\* of the groups as they were.
C3_ReplayInNewColor ==
    [][/\ (/\ lastCall.name = "ChangeGroupColor" /\ lastCall'.name = "DrawGroup"
            /\ lastCall'.args[1] = lastCall.args[1] /\ ~gal.isGrouping)
           => \A i \in 1..Len(gal'.ctx.out) : gal'.ctx.out[i].source = COLOR4D(Tail(lastCall.args))
       /\ lastCall'.name = "ChangeGroupColor"
           => \A n \in DOMAIN gal.groups :
                  /\ n \in DOMAIN gal'.groups
                  /\ \A i \in 1..Len(gal.groups[n]) :
                         /\ i <= Len(gal'.groups[n])
                         /\ gal'.groups[n][i].cairoPath = gal.groups[n][i].cairoPath]_vars

\* the elements the step has appended to the current group
Appended ==
    LET h == gal.currentGroup
    IN  IF gal.isGrouping /\ h \in DOMAIN gal.groups /\ h \in DOMAIN gal'.groups
           /\ Len(gal'.groups[h]) >= Len(gal.groups[h])
        THEN SubSeq(gal'.groups[h], Len(gal.groups[h]) + 1, Len(gal'.groups[h]))
        ELSE <<>>

\* C10: a shape drawn with fill and stroke enabled is filled before it is
\* stroked when it is drawn immediately, and the fill-path command of a
\* shape recorded in a group precedes its stroke-path command.
C10_FillBeforeStroke ==
    [][/\ lastCall'.name \in Primitives
           => \A i, j \in 1..Len(gal'.ctx.out) :
                  ~(/\ i < j /\ gal'.ctx.out[i].op = "stroke" /\ gal'.ctx.out[j].op = "fill"
                    /\ gal'.ctx.out[i].path = gal'.ctx.out[j].path)
       /\ \A i, j \in 1..Len(Appended) :
              ~(/\ i < j /\ Appended[i].command = "CMD_STROKE_PATH"
                /\ Appended[j].command = "CMD_FILL_PATH")]_vars

(***************************************************************************)
(* Properties of the state setters.                                        *)
(***************************************************************************)
\* C2: while grouping, a primitive draw operation or a state operation
\* executes no fill and no stroke on the context and does not change its
\* transform; it only appends to the current group.
C2_GroupingDefersRendering ==
    [][(gal.isGrouping /\ lastCall'.name \in Primitives \cup Setters \cup {"SetLayerDepth", "SetTarget"})
       => /\ gal'.ctx.out = <<>>
          /\ gal'.ctx.matrix = gal.ctx.matrix
          /\ \A n \in DOMAIN gal.groups \ {gal.currentGroup} :
                 n \in DOMAIN gal'.groups /\ gal'.groups[n] = gal.groups[n]]_vars

AppearanceSetters ==
    {"SetStrokeColor", "SetFillColor", "SetLineWidth", "SetLayerDepth", "SetTarget",
     "SetIsFill", "SetIsStroke"}

\* C8: a call of an appearance setter on an initialized surface (SetTarget:
\* with a valid compositor) finalizes the pending path under the state the
\* call found: what it renders and what it records of the path is what
\* storePath does in that state, the path is cleared and isElementAdded is
\* reset; the command of the setter follows the path commands.
C8_FinalizeBeforeChange ==
    [][(/\ lastCall'.name \in AppearanceSetters
        /\ gal.isInitialized
        /\ lastCall'.name = "SetTarget" => gal.validCompositor)
       => LET f == storePath(Start)
          IN  /\ ~gal'.isElementAdded
              /\ gal'.ctx.path = <<>>
              /\ gal'.ctx.out = f.ctx.out
              /\ \A n \in DOMAIN f.groups :
                     /\ n \in DOMAIN gal'.groups
                     /\ Len(gal'.groups[n]) >= Len(f.groups[n])
                     /\ SubSeq(gal'.groups[n], 1, Len(f.groups[n])) = f.groups[n]
                     /\ \A i \in Len(f.groups[n]) + 1 .. Len(gal'.groups[n]) :
                            gal'.groups[n][i].command \notin {"CMD_STROKE_PATH", "CMD_FILL_PATH"}]_vars

\* SetStrokeColor, called while grouping after a primitive, has recorded the
\* stroke of the pending path and then its own command
C8_SetterFinalizedPath ==
    /\ lastCall.name = "SetStrokeColor"
    /\ gal.isGrouping /\ ~gal.isElementAdded
    /\ script.pure /\ Len(script.ops) = 2 /\ script.ops[1].name = "DrawLine"
    /\ Len(gal.groups[gal.currentGroup]) = 2
    /\ gal.groups[gal.currentGroup][1].command = "CMD_STROKE_PATH"
    /\ gal.groups[gal.currentGroup][2].command = "CMD_SET_STROKECOLOR"

\* the state of the GAL object that the setters set, and that of the context
Members(g) == <<g.isFillEnabled, g.isStrokeEnabled, g.strokeColor, g.fillColor, g.lineWidth>>

ContextState(g) == <<g.ctx.matrix, g.ctx.lineWidth, g.ctx.gstack, g.ctx.status>>

\* the commands in the table that are not path commands
StateCommands(g) ==
    {<<n, i>> \in (DOMAIN g.groups) \X (1..MaxCmds + 1) :
        i <= Len(g.groups[n]) /\ g.groups[n][i].command \notin {"CMD_STROKE_PATH", "CMD_FILL_PATH"}}

Assigned(call, g) ==
    CASE call.name = "SetIsFill" -> g.isFillEnabled = (call.args[1] = 1)
      [] call.name = "SetIsStroke" -> g.isStrokeEnabled = (call.args[1] = 1)
      [] call.name = "SetStrokeColor" -> g.strokeColor = COLOR4D(call.args)
      [] call.name = "SetFillColor" -> g.fillColor = COLOR4D(call.args)
      [] call.name = "SetLineWidth" -> g.lineWidth = call.args[1]
      [] OTHER -> Members(g) = Members(gal)

C4_ClearCacheEmptiesTable == lastCall.name = "ClearCache" => DOMAIN gal.groups = {}

\* ClearCache has returned with a group left in the table
C4_GroupSurvivesClearCache == lastCall.name = "ClearCache" /\ DOMAIN gal.groups # {}

\* C5: the handle BeginGroup returns is non-negative and is not the handle
\* of a group that is live when it is called, also when the group counter
\* wraps around.
C5_HandleNonNegativeUnique ==
    [][lastCall'.name = "BeginGroup" =>
           gal'.currentGroup >= 0 /\ gal'.currentGroup \notin DOMAIN gal.groups]_vars

\* BeginGroup has returned a negative handle
C5_NegativeHandle == lastCall.name = "BeginGroup" /\ gal.currentGroup < 0

\* C6: after DeleteGroup(h), DrawGroup(h) replays no element that belonged
\* to the deleted group, also when BeginGroup has returned h again since
\* (in runs whose calls all have defined behaviour).
C6_NoStaleReplay == \A i \in 1..Len(gal.replayed) : ~gal.replayed[i].stale

\* DrawGroup(h) has replayed a group outside grouping, h being a handle
\* that DeleteGroup erased before and BeginGroup returned again
C6_ReplayOfReusedHandle ==
    /\ lastCall.name = "DrawGroup"
    /\ lastCall.args[1] \in deleted
    /\ ~gal.isGrouping
    /\ gal.replayed # <<>>

\* C7: DrawGroup, ChangeGroupColor and DeleteGroup called with a handle that
\* is not live do not complete normally and do not add, remove or alter an
\* entry of the group table.
C7_UnknownHandleFailsFast ==
    [][~(/\ lastCall'.name \in {"DrawGroup", "ChangeGroupColor", "DeleteGroup"}
         /\ lastCall'.args[1] \notin DOMAIN gal.groups)]_vars

(***************************************************************************)
(* Properties of the recorded paths.                                       *)
(***************************************************************************)
\* the path elements of the table
OwnedPaths(g) == {<<n, i>> \in (DOMAIN g.groups) \X (1..MaxCmds + 1) : i \in PathElements(g.groups[n])}

\* C11: every path copied into a group is destroyed exactly once, when its
\* group is removed: the paths allocated are at any time the paths of the
\* groups in the table (none destroyed twice, none outliving its group), and
\* none is allocated after ClearCache.
C11_PathsDestroyedOnce ==
    /\ gal.livePaths = Cardinality(OwnedPaths(gal))
    /\ lastCall.name = "ClearCache" => gal.livePaths = 0

\* ClearCache has returned and a recorded path is still allocated
C11_PathAllocatedAfterClearCache == lastCall.name = "ClearCache" /\ gal.livePaths > 0

(***************************************************************************)
(* Frame properties of the group operations.                               *)
(***************************************************************************)
ColorCommands == {"CMD_SET_FILLCOLOR", "CMD_SET_STROKECOLOR"}

\* to is the table from with the colour commands of group h set to colour
Recolored(from, to, h, colour) ==
    /\ DOMAIN to = DOMAIN from
    /\ \A n \in DOMAIN from :
           /\ Len(to[n]) = Len(from[n])
           /\ \A i \in 1..Len(from[n]) :
                  /\ to[n][i].command = from[n][i].command
                  /\ to[n][i].cairoPath = from[n][i].cairoPath
                  /\ to[n][i].argument = IF n = h /\ from[n][i].command \in ColorCommands
                                          THEN ColorArg(colour)
                                          ELSE from[n][i].argument

\* C12 as stated: ChangeGroupColor(h, C) on a live handle sets the colour
\* operands of the colour commands of group h to C and changes nothing else
\* of the group table, whether or not the context is grouping.
C12_OnlyColorOperandsChange ==
    [][(lastCall'.name = "ChangeGroupColor" /\ lastCall'.args[1] \in DOMAIN gal.groups)
       => Recolored(gal.groups, gal'.groups, lastCall'.args[1], COLOR4D(Tail(lastCall'.args)))]_vars

\* C12, amended: ChangeGroupColor(h, C) on a live handle first stores the
\* pending path (while grouping with an element pending this appends its
\* stroke-path and fill-path commands to the current group) and then sets
\* the colour operands of the colour commands of group h to C; nothing else
\* of the group table changes.
C12_StoresPathThenRecolors ==
    [][(lastCall'.name = "ChangeGroupColor" /\ lastCall'.args[1] \in DOMAIN gal.groups)
       => LET h == gal.currentGroup
              pending == IF gal.isGrouping /\ gal.isElementAdded
                         THEN (IF gal.isStrokeEnabled
                               THEN <<GROUP_ELEMENT("CMD_STROKE_PATH", <<>>, cairo_copy_path(gal.ctx))>>
                               ELSE <<>>)
                              \o (IF gal.isFillEnabled
                                  THEN <<GROUP_ELEMENT("CMD_FILL_PATH", <<>>, cairo_copy_path(gal.ctx))>>
                                  ELSE <<>>)
                         ELSE <<>>
              stored == IF pending = <<>> THEN gal.groups
                        ELSE [gal.groups EXCEPT ![h] = @ \o pending]
          IN  Recolored(stored, gal'.groups, lastCall'.args[1], COLOR4D(Tail(lastCall'.args)))]_vars

\* ChangeGroupColor, the third call after BeginGroup and SetStrokeColor, has
\* set the operand of the recorded colour command to another colour
C12_ColorCommandRewritten ==
    /\ lastCall.name = "ChangeGroupColor" /\ calls = 3
    /\ lastCall.args[1] \in DOMAIN gal.groups
    /\ \E i \in 1..Len(gal.groups[lastCall.args[1]]) :
           /\ gal.groups[lastCall.args[1]][i].command = "CMD_SET_STROKECOLOR"
           /\ gal.groups[lastCall.args[1]][i].argument = ColorArg(COLOR4D(Tail(lastCall.args)))
           /\ gal.strokeColor # COLOR4D(Tail(lastCall.args))

\* C13: while the context is not grouping, no call other than
\* ChangeGroupColor, DeleteGroup and ClearCache changes the command list of a
\* group; DrawGroup(h) on a live handle leaves the group table as it is and
\* executes the commands of h in their order.
C13_RecordedGroupsAreStable ==
    [][(~gal.isGrouping /\ lastCall'.name \notin {"ChangeGroupColor", "DeleteGroup", "ClearCache"})
       => /\ \A n \in DOMAIN gal.groups : n \in DOMAIN gal'.groups /\ gal'.groups[n] = gal.groups[n]
          /\ (lastCall'.name = "DrawGroup" /\ lastCall'.args[1] \in DOMAIN gal.groups)
                 => /\ gal'.groups = gal.groups
                    /\ gal'.replayed = gal.groups[lastCall'.args[1]]]_vars

\* DrawGroup has replayed a recorded group after EndGroup, and the group is
\* in the table as it was replayed
C13_GroupReplayedAfterEndGroup ==
    /\ lastCall.name = "DrawGroup" /\ ~gal.isGrouping
    /\ lastCall.args[1] \in DOMAIN gal.groups
    /\ gal.replayed # <<>>
    /\ gal.groups[lastCall.args[1]] = gal.replayed

(***************************************************************************)
(* Frame properties of the primitive draw operations.                      *)
(***************************************************************************)
\* C14: a primitive draw operation leaves the fill flag, the stroke flag,
\* the fill colour, the stroke colour and the line width as they were, and
\* while grouping it records no command other than path commands.
C14_PrimitivesKeepDrawingState ==
    [][lastCall'.name \in Primitives
       => /\ Members(gal') = Members(gal)
          /\ \A i \in 1..Len(Appended) :
                 Appended[i].command \in {"CMD_STROKE_PATH", "CMD_FILL_PATH"}]_vars

\* DrawSegment has set the line width to the width of the segment
C14_SegmentSetLineWidth ==
    /\ lastCall.name = "DrawSegment"
    /\ gal.isFillEnabled
    /\ gal.lineWidth = lastCall.args[5]
    /\ gal.lineWidth # 0

(***************************************************************************)
(* Properties of the render targets.                                       *)
(***************************************************************************)
\* the buffer a render target maps to
BufferOf(g, aTarget) == IF aTarget = "TARGET_OVERLAY" THEN g.overlayBuffer ELSE g.mainBuffer

\* C15: in every state with a valid compositor the buffer the compositor
\* draws to is the buffer that GetTarget() maps to.
C15_ActiveBufferIsTarget == gal.validCompositor => gal.buffer = BufferOf(gal, GetTarget(gal))

\* BeginDrawing has returned with the main buffer active and GetTarget()
\* naming the overlay
C15_MainActiveTargetOverlay ==
    /\ lastCall.name = "BeginDrawing" /\ gal.validCompositor
    /\ gal.buffer = gal.mainBuffer /\ GetTarget(gal) = "TARGET_OVERLAY"

\* C16: ClearTarget(t), called on a valid compositor, clears the buffer
\* that t maps to and no other, and leaves the active buffer and the value
\* of GetTarget() as they were.
C16_ClearsOnlyTarget ==
    [][(lastCall'.name = "ClearTarget" /\ gal.validCompositor)
       => /\ \E i \in 1..Len(gal'.trace) :
                 gal'.trace[i].op = "ClearBuffer"
          /\ \A i \in 1..Len(gal'.trace) :
                 gal'.trace[i].op = "ClearBuffer" => gal'.trace[i].buffer = BufferOf(gal, lastCall'.args[1])
          /\ gal'.buffer = gal.buffer
          /\ GetTarget(gal') = GetTarget(gal)]_vars

\* ClearTarget has cleared the overlay buffer while the main buffer was,
\* and is, the active one
C16_OverlayClearedMainActive ==
    /\ lastCall = Call("ClearTarget", <<"TARGET_OVERLAY">>)
    /\ gal.validCompositor /\ gal.buffer = gal.mainBuffer
    /\ \E i \in 1..Len(gal.trace) :
           gal.trace[i].op = "ClearBuffer" /\ gal.trace[i].buffer = gal.overlayBuffer

\* C17: while the compositor is not valid, SetTarget and ClearTarget make
\* no call on the compositor and change no state.
C17_NoOpWithoutCompositor ==
    [][(lastCall'.name \in {"SetTarget", "ClearTarget"} /\ ~gal.validCompositor)
       => /\ gal'.trace = <<>>
          /\ gal' = Start]_vars

\* ClearTarget has cleared a buffer of a compositor that is not valid
C17_ClearedWithoutCompositor ==
    /\ lastCall.name = "ClearTarget" /\ ~gal.validCompositor
    /\ \E i \in 1..Len(gal.trace) : gal.trace[i].op = "ClearBuffer"

(***************************************************************************)
(* Properties of the line width.                                           *)
(***************************************************************************)
\* the length in user units of one device pixel under the matrix m, the
\* smaller of the two axes
DevicePixel(m) ==
    Min(PixelUnits \div (Abs(m.xx) + Abs(m.xy)), PixelUnits \div (Abs(m.yx) + Abs(m.yy)))

Callees(g, n) ==
    {g.groups[n][i].argument[1] : i \in {j \in 1..Len(g.groups[n]) : g.groups[n][j].command = "CMD_CALL_GROUP"}}

\* C19: DrawGroup terminates for every group built through the public
\* methods: no method records a call-group command, so no group names
\* another group (or itself), and a replay executes each command of the
\* group once and enters no other group.
C19_ReplayIsAcyclic ==
    /\ \A n \in DOMAIN gal.groups : Callees(gal, n) = {}
    /\ lastCall.name = "DrawGroup" => gal.replayed = gal.groups[lastCall.args[1]]

\* DrawGroup(h), called while another group is being recorded, has replayed
\* the commands of group h
C19_ReplayedWhileRecording ==
    /\ lastCall.name = "DrawGroup"
    /\ gal.isGrouping /\ gal.currentGroup # lastCall.args[1]
    /\ gal.replayed # <<>>

(***************************************************************************)
(* The end of a frame.                                                     *)
(***************************************************************************)
\* the two lines of a cross-hair of the given size centred on p
CrossHair(p, cursorSize) ==
    << <<<<p[1] - cursorSize \div 2, p[2]>>, <<p[1] + cursorSize \div 2, p[2]>>>>,
       <<<<p[1], p[2] - cursorSize \div 2>>, <<p[1], p[2] + cursorSize \div 2>>>> >>

\* C20: EndDrawing first flushes the pending path (outside a group it is
\* painted when fill or stroke is enabled and the context is not in error, and
\* nothing is pending when the buffers are composed), then
\* composes the main buffer, then the overlay buffer, then draws the two
\* lines of the cursor cross-hair iff the cursor is enabled, of size 8000 in
\* fullscreen-cursor mode and 80 otherwise, and only then blits to the window.
C20_ComposesThenDrawsCursor ==
    [][lastCall'.name = "EndDrawing" =>
        LET t == gal'.trace
            cursor == lastCall'.args
            lines == CrossHair(<<cursor[3], cursor[4]>>, IF cursor[2] = 1 THEN 8000 ELSE 80)
            painted == (gal.isFillEnabled \/ gal.isStrokeEnabled) /\ gal.ctx.status = "SUCCESS"
        IN  /\ (gal.isElementAdded /\ ~gal.isGrouping /\ painted) => gal'.ctx.out # <<>>
            /\ ~gal'.isElementAdded
            /\ Len(t) = (IF cursor[1] = 1 THEN 5 ELSE 3)
            /\ t[1] = [op |-> "DrawBuffer", buffer |-> gal.mainBuffer, pending |-> FALSE]
            /\ t[2] = [op |-> "DrawBuffer", buffer |-> gal.overlayBuffer, pending |-> FALSE]
            /\ cursor[1] = 1 =>
                   /\ t[3] = [op |-> "DrawLine", buffer |-> lines[1], pending |-> FALSE]
                   /\ t[4] = [op |-> "DrawLine", buffer |-> lines[2], pending |-> FALSE]
            /\ t[Len(t)].op = "Blit"]_vars

\* EndDrawing, called with a path pending and the fullscreen cursor enabled,
\* has painted the path, composed both buffers and drawn the cross-hair
C20_FullscreenCursorDrawn ==
    /\ lastCall.name = "EndDrawing"
    /\ lastCall.args[1] = 1 /\ lastCall.args[2] = 1
    /\ gal.ctx.out # <<>>
    /\ Len(gal.trace) = 5 /\ gal.trace[3].buffer[2][1] - gal.trace[3].buffer[1][1] = 8000

(***************************************************************************)
(* BRDITEMS_PLOTTER: the board items, the plotter calls they are           *)
(* translated to, and the metadata attached to the calls.                  *)
(***************************************************************************)
\* the layers of the board: an external and an internal copper layer, a
\* board technical layer and the board outline
BoardLayers == {"F_Cu", "In1_Cu", "F_Mask", "Edge_Cuts"}

AllCuMask == {"F_Cu", "In1_Cu"}

\* an external copper mask that also holds the internal copper layers
ExternalCuMaskWithInner == {"F_Cu", "In1_Cu"}

ExternalCuMask == {"F_Cu"}

AllBoardTechMask == {"F_Mask"}

\* colours of the plotter, in 1/255
WHITE == [r |-> 255, g |-> 255, b |-> 255, a |-> 255]

LIGHTGRAY == [r |-> 194, g |-> 194, b |-> 194, a |-> 255]

BLUE == [r |-> 0, g |-> 0, b |-> 194, a |-> 255]

BLACK == [r |-> 0, g |-> 0, b |-> 0, a |-> 255]

\* COLOR4D::UNSPECIFIED: no colour is configured
UNSPECIFIED == [r |-> 0, g |-> 0, b |-> 0, a |-> 0]

\* a white that is not opaque, hence not COLOR4D::WHITE
PaleWhite == [r |-> 255, g |-> 255, b |-> 255, a |-> 128]

\* the layer masks a plot may be made with
LayerMasks == {{"F_Cu"}, {"In1_Cu"}, {"F_Mask"}, {"F_Cu", "F_Mask", "Edge_Cuts"}}

\* the colours the board may give its layers
LayerColors ==
    {[l \in BoardLayers |-> IF l \in W THEN WHITE ELSE BLUE] : W \in {{}, {"F_Cu", "F_Mask"}}}

PlotModes == {"FILLED", "SKETCH"}

\* the metadata a default constructed GBR_METADATA holds
GBR_METADATA ==
    [netAttribType |-> {}, apertureAttrib |-> "GBR_APERTURE_ATTRIB_NONE",
     padName |-> "", netName |-> "", notInNet |-> FALSE, null |-> FALSE]

\* the metadata of a call that passes no GBR_METADATA
NULL == [GBR_METADATA EXCEPT !.null = TRUE]

GBR_NETINFO_ALL == {"GBR_NETINFO_PAD", "GBR_NETINFO_NET", "GBR_NETINFO_CMP"}

\* the layers of the board by their numbers: the layer of number n is
\* LayerIds[n + 1]
LayerIds == <<"F_Cu", "In1_Cu", "F_Mask", "Edge_Cuts">>

LAYER_ID_COUNT == Len(LayerIds)

\* the plotter object: its options, the colours of the layers of its board,
\* the static corner buffer of PlotFilledAreas, and the calls made to
\* m_plotter by the operation in progress; of the operation in progress
\* also the layer numbers PlotAllTextsModule has indexed m_layerMask with,
\* and the value it has returned
BRDITEMS_PLOTTER(layerMask, plotMode, layerColor, fineWidthAdj, drillMarksType) ==
    [m_layerMask |-> layerMask, plotMode |-> plotMode, layerColor |-> layerColor,
     fineWidthAdj |-> fineWidthAdj, drillMarksType |-> drillMarksType, color |-> BLACK,
     plotValue |-> TRUE, plotReference |-> TRUE, plotInvisibleText |-> FALSE,
     referenceColor |-> UNSPECIFIED, valueColor |-> UNSPECIFIED,
     cornerList |-> <<>>, out |-> <<>>, indexed |-> <<>>, returned |-> TRUE]

\* a call of a method of m_plotter
Emit(b, op, args, gbr_metadata) ==
    [b EXCEPT !.out = Append(@, [op |-> op, args |-> args, gbr_metadata |-> gbr_metadata])]

SetColor(b, color) == Emit(b, "SetColor", <<color>>, NULL)

\* a getColor that gives the colour of the layer as it is
getColorOfLayer(b, aLayer) == b.layerColor[aLayer]

getColor(b, aLayer) ==
    LET color == b.layerColor[aLayer]
    IN  IF color = WHITE THEN LIGHTGRAY ELSE color

\* a PlotPad that leaves the aperture attribute of the metadata unset
PlotPadWithoutAperture(b, aPad, aColor, aPlotMode) ==
    LET isOnCopperLayer == b.m_layerMask \cap AllCuMask # {}
        gbr_metadata == [GBR_METADATA EXCEPT
                            !.netAttribType = IF isOnCopperLayer THEN GBR_NETINFO_ALL ELSE {"GBR_NETINFO_CMP"}]
        b1 == SetColor(b, IF aColor # WHITE THEN aColor ELSE LIGHTGRAY)
    IN  IF aPad.shape = "PAD_SHAPE_CIRCLE"
        THEN Emit(b1, "FlashPadCircle", <<aPad.size[1], aPlotMode>>, gbr_metadata)
        ELSE Emit(b1, "FlashPadRect", <<aPad.size, aPlotMode>>, gbr_metadata)

PlotPad(b, aPad, aColor, aPlotMode) ==
    LET isOnCopperLayer == b.m_layerMask \cap AllCuMask # {}
        isOnExternalCopperLayer == b.m_layerMask \cap ExternalCuMask # {}
        isPadOnBoardTechLayers == aPad.layerSet \cap AllBoardTechMask # {}
        inner == ~isOnExternalCopperLayer \/ ~isPadOnBoardTechLayers
        m1 == [GBR_METADATA EXCEPT
                  !.netAttribType = GBR_NETINFO_ALL,
                  !.padName = IF isOnExternalCopperLayer THEN aPad.name ELSE @,
                  !.netName = aPad.netname,
                  !.notInNet = aPad.attribute = "PAD_ATTRIB_HOLE_NOT_PLATED" \/ aPad.name = ""]
        m2 == IF inner
              THEN [m1 EXCEPT !.netAttribType = {"GBR_NETINFO_NET", "GBR_NETINFO_CMP"},
                              !.apertureAttrib = IF ~isPadOnBoardTechLayers
                                                 THEN "GBR_APERTURE_ATTRIB_CONDUCTOR" ELSE @]
              ELSE m1
        m3 == IF inner
              THEN CASE aPad.attribute = "PAD_ATTRIB_HOLE_NOT_PLATED" ->
                          [m2 EXCEPT !.apertureAttrib = "GBR_APERTURE_ATTRIB_WASHERPAD"]
                     [] aPad.attribute = "PAD_ATTRIB_STANDARD" ->
                          [m2 EXCEPT !.apertureAttrib = "GBR_APERTURE_ATTRIB_VIAPAD"]
                     [] OTHER -> m2
              ELSE CASE aPad.attribute = "PAD_ATTRIB_HOLE_NOT_PLATED" ->
                          [m2 EXCEPT !.apertureAttrib = "GBR_APERTURE_ATTRIB_WASHERPAD"]
                     [] aPad.attribute = "PAD_ATTRIB_STANDARD" ->
                          [m2 EXCEPT !.apertureAttrib = "GBR_APERTURE_ATTRIB_COMPONENTPAD"]
                     [] aPad.attribute = "PAD_ATTRIB_CONN" ->
                          [m2 EXCEPT !.apertureAttrib = "GBR_APERTURE_ATTRIB_CONNECTORPAD"]
                     [] aPad.attribute = "PAD_ATTRIB_SMD" ->
                          [m2 EXCEPT !.apertureAttrib = IF aPad.shape = "PAD_SHAPE_CIRCLE"
                                                        THEN "GBR_APERTURE_ATTRIB_BGAPAD_CUDEF"
                                                        ELSE "GBR_APERTURE_ATTRIB_SMDPAD_CUDEF"]
                     [] OTHER -> m2
        m4 == IF aPad.attribute = "PAD_ATTRIB_HOLE_NOT_PLATED"
              THEN [m3 EXCEPT !.apertureAttrib = "GBR_APERTURE_ATTRIB_WASHERPAD"]
              ELSE m3
        gbr_metadata == IF isOnCopperLayer THEN m4
                        ELSE [GBR_METADATA EXCEPT !.netAttribType = {"GBR_NETINFO_CMP"}]
        b1 == SetColor(b, IF aColor # WHITE THEN aColor ELSE LIGHTGRAY)
    IN  CASE aPad.shape = "PAD_SHAPE_CIRCLE" ->
                Emit(b1, "FlashPadCircle", <<aPad.size[1], aPlotMode>>, gbr_metadata)
          [] aPad.shape = "PAD_SHAPE_OVAL" ->
                Emit(b1, "FlashPadOval", <<aPad.size, aPlotMode>>, gbr_metadata)
          [] aPad.shape = "PAD_SHAPE_TRAPEZOID" ->
                Emit(b1, "FlashPadTrapez", <<aPad.size, aPlotMode>>, gbr_metadata)
          [] aPad.shape = "PAD_SHAPE_ROUNDRECT" ->
                Emit(b1, "FlashPadRoundRect", <<aPad.size, aPlotMode>>, gbr_metadata)
          [] OTHER ->
                Emit(b1, "FlashPadRect", <<aPad.size, aPlotMode>>, gbr_metadata)

\* the length of an axis-parallel line
GetLineLength(aPointA, aPointB) == EuclideanNorm(aPointA[1] - aPointB[1], aPointA[2] - aPointB[2])

\* a default constructed DRAWSEGMENT
DRAWSEGMENT ==
    [layer |-> "F_Cu", shape |-> "S_SEGMENT", width |-> 0, start |-> <<0, 0>>, end |-> <<0, 0>>,
     angle |-> 0, bezierPoints |-> <<>>]

RECURSIVE ThickSegments(_, _, _, _, _)
\* one ThickSegment from each of the points from the jj-th on to the next
ThickSegments(b, points, jj, thickness, gbr_metadata) ==
    IF jj > Len(points) THEN b
    ELSE ThickSegments(Emit(b, "ThickSegment", <<points[jj - 1], points[jj], thickness, b.plotMode>>, gbr_metadata),
                       points, jj + 1, thickness, gbr_metadata)

PlotDrawSegment(b, aSeg) ==
    IF aSeg.layer \notin b.m_layerMask THEN b
    ELSE LET thickness == aSeg.width
             b1 == SetColor(b, getColor(b, aSeg.layer))
             isOnCopperLayer == b.m_layerMask \cap AllCuMask # {}
             gbr_metadata == IF isOnCopperLayer /\ aSeg.layer = "Edge_Cuts"
                             THEN [GBR_METADATA EXCEPT !.apertureAttrib = "GBR_APERTURE_ATTRIB_NONCONDUCTOR"]
                             ELSE GBR_METADATA
             radius == GetLineLength(aSeg.end, aSeg.start)
             StAngle == Atan2(aSeg.end[2] - aSeg.start[2], aSeg.end[1] - aSeg.start[1])
             EndAngle == StAngle + aSeg.angle
         IN  CASE aSeg.shape = "S_CIRCLE" ->
                     Emit(b1, "ThickCircle", <<aSeg.start, radius * 2, thickness, b.plotMode>>, gbr_metadata)
               [] aSeg.shape = "S_ARC" ->
                     Emit(b1, "ThickArc", <<aSeg.start, -EndAngle, -StAngle, radius, thickness, b.plotMode>>,
                          gbr_metadata)
               [] aSeg.shape = "S_CURVE" ->
                     ThickSegments(Emit(b1, "SetCurrentLineWidth", <<thickness>>, gbr_metadata),
                                   aSeg.bezierPoints, 2, thickness, gbr_metadata)
               [] OTHER ->
                     Emit(b1, "ThickSegment", <<aSeg.start, aSeg.end, thickness, b.plotMode>>, gbr_metadata)

RECURSIVE TextLines(_, _, _, _)
\* one Text call for each of the lines of a multiline text from the ii-th on
TextLines(b, pt_texte, ii, gbr_metadata) ==
    IF ii > Len(pt_texte.text) THEN b
    ELSE TextLines(Emit(b, "Text", <<<<pt_texte.pos[1], pt_texte.pos[2] + ii - 1>>, "UNSPECIFIED",
                                     <<pt_texte.text[ii]>>, pt_texte.thickness>>, gbr_metadata),
                   pt_texte, ii + 1, gbr_metadata)

\* the shown text is the sequence of its lines, the empty text has none
PlotTextePcb(b, pt_texte) ==
    IF pt_texte.text = <<>> THEN b
    ELSE IF pt_texte.layer \notin b.m_layerMask THEN b
    ELSE LET gbr_metadata == IF pt_texte.layer \in AllCuMask
                             THEN [GBR_METADATA EXCEPT !.apertureAttrib = "GBR_APERTURE_ATTRIB_NONCONDUCTOR"]
                             ELSE GBR_METADATA
             b1 == SetColor(b, getColor(b, pt_texte.layer))
         IN  IF pt_texte.multiline THEN TextLines(b1, pt_texte, 1, gbr_metadata)
             ELSE Emit(b1, "Text", <<pt_texte.pos, "UNSPECIFIED", pt_texte.text, pt_texte.thickness>>,
                       gbr_metadata)

PlotTextModule(b, pt_texte, aColor) ==
    LET color == IF aColor = WHITE THEN LIGHTGRAY ELSE aColor
        gbr_metadata == [GBR_METADATA EXCEPT !.netAttribType = {"GBR_NETINFO_CMP"}]
    IN  Emit(SetColor(b, color), "Text", <<pt_texte.pos, color, pt_texte.text, pt_texte.thickness>>,
             gbr_metadata)

\* m_layerMask[aLayer]: a read beyond the bits of the mask is undefined, and
\* gives the bit of stray
LayerBit(b, aLayer, stray) ==
    IF aLayer < LAYER_ID_COUNT THEN LayerIds[aLayer + 1] \in b.m_layerMask ELSE stray.bit

\* the plotter after it has read m_layerMask[aLayer]
Indexed(b, aLayer) == [b EXCEPT !.indexed = Append(@, aLayer)]

\* getColor( aLayer ) of a layer number: the colour of a number that is not
\* a layer of the board is undefined, and is the colour of stray
getColorOfNumber(b, aLayer, stray) ==
    IF aLayer < LAYER_ID_COUNT THEN getColor(b, LayerIds[aLayer + 1])
    ELSE IF stray.color = WHITE THEN LIGHTGRAY ELSE stray.color

RECURSIVE GraphicalTexts(_, _, _, _)
\* the loop over the graphical items of the footprint, from the i-th on
GraphicalTexts(b, items, i, stray) ==
    IF i > Len(items) THEN [b EXCEPT !.returned = TRUE]
    ELSE LET textModule == items[i]
             textLayer == textModule.layer
         IN  IF textModule.type # "PCB_MODULE_TEXT_T" \/ ~textModule.visible
             THEN GraphicalTexts(b, items, i + 1, stray)
             ELSE IF textLayer >= LAYER_ID_COUNT THEN [b EXCEPT !.returned = FALSE]
             ELSE IF ~LayerBit(b, textLayer, stray)
                  THEN GraphicalTexts(Indexed(b, textLayer), items, i + 1, stray)
                  ELSE GraphicalTexts(PlotTextModule(Indexed(b, textLayer), textModule,
                                                     getColorOfNumber(b, textLayer, stray)),
                                      items, i + 1, stray)

PlotAllTextsModule(b, aModule, stray) ==
    LET reference == aModule.reference
        value == aModule.value
    IN  IF reference.layer >= LAYER_ID_COUNT THEN [b EXCEPT !.returned = FALSE]
        ELSE IF value.layer > LAYER_ID_COUNT THEN [Indexed(b, reference.layer) EXCEPT !.returned = FALSE]
        ELSE LET trace_ref == /\ b.plotReference
                              /\ LayerBit(b, reference.layer, stray)
                              /\ (reference.visible \/ b.plotInvisibleText)
                 textLayer == value.layer
                 trace_val == /\ b.plotValue
                              /\ LayerBit(b, textLayer, stray)
                              /\ (value.visible \/ b.plotInvisibleText)
                 b1 == Indexed(Indexed(b, reference.layer), textLayer)
                 b2 == IF ~trace_ref THEN b1
                       ELSE IF b.referenceColor = UNSPECIFIED
                            THEN PlotTextModule(b1, reference, getColorOfNumber(b, textLayer, stray))
                            ELSE PlotTextModule(b1, reference, b.referenceColor)
                 b3 == IF ~trace_val THEN b2
                       ELSE IF b.valueColor = UNSPECIFIED
                            THEN PlotTextModule(b2, value, getColorOfNumber(b, textLayer, stray))
                            ELSE PlotTextModule(b2, value, b.valueColor)
             IN  GraphicalTexts(b3, aModule.graphicalItems, 1, stray)

\* a PlotDimension that plots the arrow legs of the origin of the crossbar
\* before those of its end
PlotDimensionOriginFirst(b, aDim) ==
    IF aDim.layer \notin b.m_layerMask THEN b
    ELSE LET draw == [DRAWSEGMENT EXCEPT !.width = aDim.width, !.layer = aDim.layer]
             color == b.layerColor[aDim.layer]
             b1 == SetColor(b, IF color # WHITE THEN color ELSE LIGHTGRAY)
             b2 == PlotTextePcb(b1, aDim.m_Text)
             b3 == PlotDrawSegment(b2, [draw EXCEPT !.start = aDim.m_crossBarO, !.end = aDim.m_crossBarF])
             b4 == PlotDrawSegment(b3, [draw EXCEPT !.start = aDim.m_featureLineGO, !.end = aDim.m_featureLineGF])
             b5 == PlotDrawSegment(b4, [draw EXCEPT !.start = aDim.m_featureLineDO, !.end = aDim.m_featureLineDF])
             b6 == PlotDrawSegment(b5, [draw EXCEPT !.start = aDim.m_crossBarO, !.end = aDim.m_arrowG1F])
             b7 == PlotDrawSegment(b6, [draw EXCEPT !.start = aDim.m_crossBarO, !.end = aDim.m_arrowG2F])
             b8 == PlotDrawSegment(b7, [draw EXCEPT !.start = aDim.m_crossBarF, !.end = aDim.m_arrowD1F])
         IN  PlotDrawSegment(b8, [draw EXCEPT !.start = aDim.m_crossBarF, !.end = aDim.m_arrowD2F])

PlotDimension(b, aDim) ==
    IF aDim.layer \notin b.m_layerMask THEN b
    ELSE LET draw == [DRAWSEGMENT EXCEPT !.width = aDim.width, !.layer = aDim.layer]
             color == b.layerColor[aDim.layer]
             b1 == SetColor(b, IF color # WHITE THEN color ELSE LIGHTGRAY)
             b2 == PlotTextePcb(b1, aDim.m_Text)
             b3 == PlotDrawSegment(b2, [draw EXCEPT !.start = aDim.m_crossBarO, !.end = aDim.m_crossBarF])
             b4 == PlotDrawSegment(b3, [draw EXCEPT !.start = aDim.m_featureLineGO, !.end = aDim.m_featureLineGF])
             b5 == PlotDrawSegment(b4, [draw EXCEPT !.start = aDim.m_featureLineDO, !.end = aDim.m_featureLineDF])
             b6 == PlotDrawSegment(b5, [draw EXCEPT !.start = aDim.m_crossBarF, !.end = aDim.m_arrowD1F])
             b7 == PlotDrawSegment(b6, [draw EXCEPT !.start = aDim.m_crossBarF, !.end = aDim.m_arrowD2F])
             b8 == PlotDrawSegment(b7, [draw EXCEPT !.start = aDim.m_crossBarO, !.end = aDim.m_arrowG1F])
         IN  PlotDrawSegment(b8, [draw EXCEPT !.start = aDim.m_crossBarO, !.end = aDim.m_arrowG2F])

\* int / int, which truncates towards zero
Div(a, n) == IF a >= 0 THEN a \div n ELSE -((-a) \div n)

\* a PlotPcbTarget whose circle has the radius size / 2 whatever the shape is
PlotPcbTargetHalfRadius(b, aMire) ==
    IF aMire.layer \notin b.m_layerMask THEN b
    ELSE LET b1 == SetColor(b, getColor(b, aMire.layer))
             mirePos == aMire.pos
             circle == [DRAWSEGMENT EXCEPT !.shape = "S_CIRCLE", !.width = aMire.width,
                                           !.layer = aMire.layer, !.start = mirePos]
             radius == Div(aMire.size, 2)
             b2 == PlotDrawSegment(b1, [circle EXCEPT !.end = <<mirePos[1] + radius, mirePos[2]>>])
             draw == [circle EXCEPT !.shape = "S_SEGMENT"]
             dx1 == radius
             dy1 == IF aMire.shape # 0 THEN radius ELSE 0
             dx2 == IF aMire.shape # 0 THEN dx1 ELSE 0
             dy2 == IF aMire.shape # 0 THEN -dy1 ELSE radius
             b3 == PlotDrawSegment(b2, [draw EXCEPT !.start = <<mirePos[1] - dx1, mirePos[2] - dy1>>,
                                                    !.end = <<mirePos[1] + dx1, mirePos[2] + dy1>>])
         IN  PlotDrawSegment(b3, [draw EXCEPT !.start = <<mirePos[1] - dx2, mirePos[2] - dy2>>,
                                              !.end = <<mirePos[1] + dx2, mirePos[2] + dy2>>])

PlotPcbTarget(b, aMire) ==
    IF aMire.layer \notin b.m_layerMask THEN b
    ELSE LET b1 == SetColor(b, getColor(b, aMire.layer))
             mirePos == aMire.pos
             circle == [DRAWSEGMENT EXCEPT !.shape = "S_CIRCLE", !.width = aMire.width,
                                           !.layer = aMire.layer, !.start = mirePos]
             radius1 == IF aMire.shape # 0 THEN Div(aMire.size, 2) ELSE Div(aMire.size, 3)
             b2 == PlotDrawSegment(b1, [circle EXCEPT !.end = <<mirePos[1] + radius1, mirePos[2]>>])
             draw == [circle EXCEPT !.shape = "S_SEGMENT"]
             radius == Div(aMire.size, 2)
             dx1 == radius
             dy1 == IF aMire.shape # 0 THEN radius ELSE 0
             dx2 == IF aMire.shape # 0 THEN dx1 ELSE 0
             dy2 == IF aMire.shape # 0 THEN -dy1 ELSE radius
             b3 == PlotDrawSegment(b2, [draw EXCEPT !.start = <<mirePos[1] - dx1, mirePos[2] - dy1>>,
                                                    !.end = <<mirePos[1] + dx1, mirePos[2] + dy1>>])
         IN  PlotDrawSegment(b3, [draw EXCEPT !.start = <<mirePos[1] - dx2, mirePos[2] - dy2>>,
                                              !.end = <<mirePos[1] + dx2, mirePos[2] + dy2>>])

\* RotatePoint by a number of quarter turns
RotatePoint(point, angle) ==
    <<point[2] * Sin4(angle) + point[1] * Cos4(angle), point[2] * Cos4(angle) - point[1] * Sin4(angle)>>

\* corners that are moved to the position of the footprint before they are
\* rotated
CornersTranslatedFirst(polyPoints, module) ==
    [ii \in 1..Len(polyPoints) |->
        RotatePoint(<<polyPoints[ii][1] + module.pos[1], polyPoints[ii][2] + module.pos[2]>>, module.orientation)]

\* the corners of a footprint polygon, in board coordinates
Corners(polyPoints, module) ==
    [ii \in 1..Len(polyPoints) |->
        LET corner == RotatePoint(polyPoints[ii], module.orientation)
        IN  <<corner[1] + module.pos[1], corner[2] + module.pos[2]>>]

Plot_1_EdgeModule(b, aEdge) ==
    LET b1 == SetColor(b, getColor(b, aEdge.layer))
        thickness == aEdge.width
        isOnCopperLayer == b.m_layerMask \cap AllCuMask # {}
        m1 == [GBR_METADATA EXCEPT !.netAttribType = {"GBR_NETINFO_CMP"}]
        gbr_metadata ==
            IF isOnCopperLayer THEN [m1 EXCEPT !.apertureAttrib = "GBR_APERTURE_ATTRIB_ETCHEDCMP"]
            ELSE IF aEdge.layer = "Edge_Cuts"
                 THEN [m1 EXCEPT !.apertureAttrib = "GBR_APERTURE_ATTRIB_NONCONDUCTOR"]
                 ELSE m1
        radius == GetLineLength(aEdge.end, aEdge.start)
        startAngle == Atan2(aEdge.end[2] - aEdge.start[2], aEdge.end[1] - aEdge.start[1])
        endAngle == startAngle + aEdge.angle
    IN  CASE aEdge.shape = "S_SEGMENT" ->
                Emit(b1, "ThickSegment", <<aEdge.start, aEdge.end, thickness, b.plotMode>>, gbr_metadata)
          [] aEdge.shape = "S_CIRCLE" ->
                Emit(b1, "ThickCircle", <<aEdge.start, radius * 2, thickness, b.plotMode>>, gbr_metadata)
          [] aEdge.shape = "S_ARC" ->
                Emit(b1, "ThickArc", <<aEdge.start, -endAngle, -startAngle, radius, thickness, b.plotMode>>,
                     gbr_metadata)
          [] aEdge.shape = "S_POLYGON" ->
                IF Len(aEdge.polyPoints) <= 1 THEN b1
                ELSE Emit(b1, "PlotPoly", <<Corners(aEdge.polyPoints, aEdge.module), "FILLED_SHAPE", thickness>>,
                          gbr_metadata)
          [] OTHER -> b1

\* fill segments that are plotted for the first contour of the zone only
FillSegmentsOncePerZone(b, aZone, iseg, gbr_metadata) ==
    IF \E i \in 1..Len(b.out) : b.out[i].op = "ThickSegment" THEN b
    ELSE [b EXCEPT !.out = @ \o [i \in 1..(Len(aZone.fillSegments) - iseg + 1) |->
             [op |-> "ThickSegment",
              args |-> <<aZone.fillSegments[iseg + i - 1][1], aZone.fillSegments[iseg + i - 1][2],
                         aZone.minThickness, b.plotMode>>,
              gbr_metadata |-> gbr_metadata]]]

RECURSIVE FillSegments(_, _, _, _)
\* one ThickSegment for each of the fill segments of the zone from the iseg-th on
FillSegments(b, aZone, iseg, gbr_metadata) ==
    IF iseg > Len(aZone.fillSegments) THEN b
    ELSE FillSegments(Emit(b, "ThickSegment", <<aZone.fillSegments[iseg][1], aZone.fillSegments[iseg][2],
                                                aZone.minThickness, b.plotMode>>, gbr_metadata),
                      aZone, iseg + 1, gbr_metadata)

\* a plot of the contour that strokes the outline after a solid fill too
PlotContourStrokesSolid(b, aZone, gbr_metadata) ==
    IF b.plotMode = "FILLED"
    THEN LET b1 == IF aZone.fillMode = 0
                   THEN Emit(b, "PlotPoly", <<b.cornerList, "FILLED_SHAPE", aZone.minThickness>>, gbr_metadata)
                   ELSE FillSegments(b, aZone, 1, gbr_metadata)
         IN  IF aZone.minThickness > 0
             THEN Emit(b1, "PlotPoly", <<b.cornerList, "NO_FILL", aZone.minThickness>>, NULL)
             ELSE b1
    ELSE LET b1 == IF aZone.minThickness > 0
                   THEN ThickSegments(b, b.cornerList, 2, aZone.minThickness, gbr_metadata)
                   ELSE b
         IN  Emit(b1, "SetCurrentLineWidth", <<-1>>, NULL)

\* a plot of the contour that, after the fill segments, strokes the outline
\* whatever its thickness is
PlotContourAlwaysOutlines(b, aZone, gbr_metadata) ==
    IF b.plotMode = "FILLED"
    THEN IF aZone.fillMode = 0
         THEN Emit(b, "PlotPoly", <<b.cornerList, "FILLED_SHAPE", aZone.minThickness>>, gbr_metadata)
         ELSE Emit(FillSegments(b, aZone, 1, gbr_metadata), "PlotPoly",
                   <<b.cornerList, "NO_FILL", aZone.minThickness>>, NULL)
    ELSE LET b1 == IF aZone.minThickness > 0
                   THEN ThickSegments(b, b.cornerList, 2, aZone.minThickness, gbr_metadata)
                   ELSE b
         IN  Emit(b1, "SetCurrentLineWidth", <<-1>>, NULL)

\* the plot of the contour that cornerList holds
PlotContour(b, aZone, gbr_metadata) ==
    IF b.plotMode = "FILLED"
    THEN IF aZone.fillMode = 0
         THEN Emit(b, "PlotPoly", <<b.cornerList, "FILLED_SHAPE", aZone.minThickness>>, gbr_metadata)
         ELSE LET b1 == FillSegments(b, aZone, 1, gbr_metadata)
              IN  IF aZone.minThickness > 0
                  THEN Emit(b1, "PlotPoly", <<b.cornerList, "NO_FILL", aZone.minThickness>>, NULL)
                  ELSE b1
    ELSE LET b1 == IF aZone.minThickness > 0
                   THEN ThickSegments(b, b.cornerList, 2, aZone.minThickness, gbr_metadata)
                   ELSE b
         IN  Emit(b1, "SetCurrentLineWidth", <<-1>>, NULL)

RECURSIVE PlotContoursKeepsCorners(_, _, _, _)
\* a loop that does not clear the corner buffer after a contour
PlotContoursKeepsCorners(b, aZone, ic, gbr_metadata) ==
    IF ic > Len(aZone.polysList) THEN [b EXCEPT !.cornerList = <<>>]
    ELSE LET pushed == b.cornerList \o aZone.polysList[ic]
             cornerList == IF pushed[1] # pushed[Len(pushed)] THEN Append(pushed, pushed[1]) ELSE pushed
         IN  PlotContoursKeepsCorners(PlotContour([b EXCEPT !.cornerList = cornerList], aZone, gbr_metadata),
                                      aZone, ic + 1, gbr_metadata)

RECURSIVE PlotContours(_, _, _, _)
\* the loop over the corners of the filled polygons, from the first corner
\* of the ic-th contour on
PlotContours(b, aZone, ic, gbr_metadata) ==
    IF ic > Len(aZone.polysList) THEN b
    ELSE LET pushed == b.cornerList \o aZone.polysList[ic]
             cornerList == IF pushed[1] # pushed[Len(pushed)] THEN Append(pushed, pushed[1]) ELSE pushed
             b1 == PlotContour([b EXCEPT !.cornerList = cornerList], aZone, gbr_metadata)
         IN  PlotContours([b1 EXCEPT !.cornerList = <<>>], aZone, ic + 1, gbr_metadata)

PlotFilledAreas(b, aZone) ==
    IF aZone.polysList = <<>> THEN b
    ELSE LET gbr_metadata ==
                 IF aZone.layer \notin AllCuMask THEN GBR_METADATA
                 ELSE IF aZone.netname = ""
                      THEN [GBR_METADATA EXCEPT !.apertureAttrib = "GBR_APERTURE_ATTRIB_NONCONDUCTOR"]
                      ELSE [GBR_METADATA EXCEPT !.netName = aZone.netname,
                                                !.apertureAttrib = "GBR_APERTURE_ATTRIB_CONDUCTOR",
                                                !.netAttribType = {"GBR_NETINFO_NET"}]
             b1 == [b EXCEPT !.cornerList = <<>>]
         IN  PlotContours(SetColor(b1, getColor(b, aZone.layer)), aZone, 1, gbr_metadata)

Clamp(lower, value, upper) ==
    IF value < lower THEN lower ELSE IF upper < value THEN upper ELSE value

\* a plotOneDrillMark that compensates the drill before it applies the ceiling
\* of a small drill
plotOneDrillMarkCompensatesFirst(b, aDrillShape, aDrillPos, aDrillSize, aPadSize, aOrientation, aSmallDrill) ==
    LET x1 == aDrillSize[1] - b.fineWidthAdj
        x2 == IF aSmallDrill # 0 /\ aDrillShape = "PAD_DRILL_SHAPE_CIRCLE" THEN Min(aSmallDrill, x1) ELSE x1
        x == Clamp(1, x2, aPadSize[1] - 1)
        y == Clamp(1, aDrillSize[2] - b.fineWidthAdj, aPadSize[2] - 1)
    IN  IF aDrillShape = "PAD_DRILL_SHAPE_OBLONG"
        THEN Emit(b, "FlashPadOval", <<aDrillPos, <<x, y>>, aOrientation, b.plotMode>>, NULL)
        ELSE Emit(b, "FlashPadCircle", <<aDrillPos, x, b.plotMode>>, NULL)

plotOneDrillMark(b, aDrillShape, aDrillPos, aDrillSize, aPadSize, aOrientation, aSmallDrill) ==
    LET x1 == IF aSmallDrill # 0 /\ aDrillShape = "PAD_DRILL_SHAPE_CIRCLE"
              THEN Min(aSmallDrill, aDrillSize[1]) ELSE aDrillSize[1]
        x == Clamp(1, x1 - b.fineWidthAdj, aPadSize[1] - 1)
        y == Clamp(1, aDrillSize[2] - b.fineWidthAdj, aPadSize[2] - 1)
    IN  IF aDrillShape = "PAD_DRILL_SHAPE_OBLONG"
        THEN Emit(b, "FlashPadOval", <<aDrillPos, <<x, y>>, aOrientation, b.plotMode>>, NULL)
        ELSE Emit(b, "FlashPadCircle", <<aDrillPos, x, b.plotMode>>, NULL)

\* the ceiling of a small drill mark (0.35 mm in the build)
SMALL_DRILL == 25

RECURSIVE ViaDrillMarks(_, _, _, _)
\* the drill marks of the vias of the board from the i-th on
ViaDrillMarks(b, m_Track, i, small_drill) ==
    IF i > Len(m_Track) THEN b
    ELSE ViaDrillMarks(plotOneDrillMark(b, "PAD_DRILL_SHAPE_CIRCLE", m_Track[i].start, <<m_Track[i].drill, 0>>,
                                        <<m_Track[i].width, 0>>, 0, small_drill),
                       m_Track, i + 1, small_drill)

RECURSIVE PadDrillMarks(_, _, _, _)
\* the drill marks of the pads of the board from the i-th on
PadDrillMarks(b, pads, i, small_drill) ==
    IF i > Len(pads) THEN b
    ELSE LET pad == pads[i]
             b1 == IF pad.drillSize[1] = 0 THEN b
                   ELSE plotOneDrillMark(b, pad.drillShape, pad.pos, pad.drillSize, pad.size, 0, small_drill)
         IN  PadDrillMarks(b1, pads, i + 1, small_drill)

\* a PlotDrillMarks that marks the pads before the vias
PlotDrillMarksPadsFirst(b, m_board) ==
    LET small_drill == IF b.drillMarksType = "SMALL_DRILL_SHAPE" THEN SMALL_DRILL ELSE 0
        b1 == IF b.plotMode = "FILLED" THEN SetColor(b, WHITE) ELSE b
        b2 == ViaDrillMarks(PadDrillMarks(b1, m_board.pads, 1, small_drill), m_board.m_Track, 1, small_drill)
    IN  IF b.plotMode = "FILLED" THEN SetColor(b2, b.color) ELSE b2

PlotDrillMarks(b, m_board) ==
    LET small_drill == IF b.drillMarksType = "SMALL_DRILL_SHAPE" THEN SMALL_DRILL ELSE 0
        b1 == IF b.plotMode = "FILLED" THEN SetColor(b, WHITE) ELSE b
        b2 == PadDrillMarks(ViaDrillMarks(b1, m_board.m_Track, 1, small_drill), m_board.pads, 1, small_drill)
    IN  IF b.plotMode = "FILLED" THEN SetColor(b2, b.color) ELSE b2

(***************************************************************************)
(* The board items that are plotted.                                       *)
(***************************************************************************)
PadLayerSets == {{"F_Cu", "In1_Cu", "F_Mask"}, {"F_Cu"}}

PadAttributes == {"PAD_ATTRIB_STANDARD", "PAD_ATTRIB_SMD", "PAD_ATTRIB_CONN", "PAD_ATTRIB_HOLE_NOT_PLATED"}

PadShapes == {"PAD_SHAPE_CIRCLE", "PAD_SHAPE_OVAL", "PAD_SHAPE_RECT", "PAD_SHAPE_TRAPEZOID", "PAD_SHAPE_ROUNDRECT"}

D_PAD(layerSet, attribute, shape, drillShape, drillSize, size) ==
    [layerSet |-> layerSet, attribute |-> attribute, shape |-> shape, name |-> "1", netname |-> "GND", pos |-> <<0, 0>>,
     size |-> size, drillShape |-> drillShape, drillSize |-> drillSize]

Pads ==
    {D_PAD(l, a, s, "PAD_DRILL_SHAPE_CIRCLE", <<40, 40>>, <<100, 60>>) :
        l \in PadLayerSets, a \in PadAttributes, s \in PadShapes}

PlotColors == {WHITE, BLUE}

TextColors == {WHITE, PaleWhite}

Texts ==
    {[layer |-> l, text |-> t, multiline |-> m, pos |-> <<0, 0>>, thickness |-> 1] :
        l \in {"F_Cu", "F_Mask"}, t \in {<<>>, <<"R1">>, <<"10", "mm">>}, m \in BOOLEAN}

DrawSegments ==
    {[DRAWSEGMENT EXCEPT !.layer = l, !.shape = s, !.width = 2, !.end = <<4, 0>>, !.angle = 1,
                         !.bezierPoints = <<<<0, 0>>, <<2, 1>>, <<4, 0>>>>] :
        l \in {"F_Cu", "Edge_Cuts"}, s \in {"S_SEGMENT", "S_CIRCLE", "S_ARC", "S_CURVE"}}

Dimensions ==
    {[layer |-> l, width |-> 2, m_Text |-> t,
      m_crossBarO |-> <<0, 0>>, m_crossBarF |-> <<10, 0>>,
      m_featureLineGO |-> <<0, 4>>, m_featureLineGF |-> <<0, -1>>,
      m_featureLineDO |-> <<10, 4>>, m_featureLineDF |-> <<10, -1>>,
      m_arrowD1F |-> <<8, 1>>, m_arrowD2F |-> <<8, -1>>,
      m_arrowG1F |-> <<2, 1>>, m_arrowG2F |-> <<2, -1>>] :
        l \in {"F_Cu", "F_Mask"}, t \in Texts}

Targets ==
    {[layer |-> l, shape |-> x, size |-> z, width |-> 2, pos |-> <<50, 50>>] :
        l \in {"F_Cu", "Edge_Cuts"}, x \in {0, 1}, z \in {0, 1, 30, 31}}

Edges ==
    {[layer |-> l, shape |-> s, width |-> 2, start |-> <<0, 0>>, end |-> <<4, 0>>, angle |-> 1,
      polyPoints |-> p, module |-> [orientation |-> 1, pos |-> <<10, 10>>]] :
        l \in {"F_Cu", "F_Mask", "Edge_Cuts"}, s \in {"S_SEGMENT", "S_CIRCLE", "S_ARC", "S_POLYGON"},
        p \in {<<>>, <<<<0, 0>>>>, <<<<0, 0>>, <<4, 0>>>>, <<<<0, 0>>, <<4, 0>>, <<0, 4>>>>}}

\* an open square, a closed triangle, a single corner
Contours ==
    {<<<<0, 0>>, <<4, 0>>, <<4, 4>>, <<0, 4>>>>, <<<<0, 0>>, <<4, 0>>, <<0, 4>>, <<0, 0>>>>, <<<<9, 9>>>>}

PolySets ==
    {<<>>} \cup {<<c>> : c \in Contours}
           \cup {<<<<<<0, 0>>, <<4, 0>>, <<4, 4>>, <<0, 4>>>>, <<<<1, 1>>, <<2, 1>>, <<1, 2>>, <<1, 1>>>>>>}

Zones ==
    {[layer |-> l, netname |-> n, polysList |-> p, fillMode |-> f, minThickness |-> t,
      fillSegments |-> <<<<<<1, 1>>, <<3, 1>>>>, <<<<1, 2>>, <<3, 2>>>>>>] :
        l \in {"F_Cu", "F_Mask"}, n \in {"", "GND"}, p \in PolySets, f \in {0, 1}, t \in {0, 2}}

\* a text of a footprint on the layer of the given number
TEXTE_MODULE(layer, text, visible) ==
    [type |-> "PCB_MODULE_TEXT_T", layer |-> layer, text |-> <<text>>, visible |-> visible,
     pos |-> <<0, 0>>, thickness |-> 1]

\* the graphical items a footprint may hold: none, an edge and a text, a
\* text on a layer number beyond the layers of the board
GraphicalItems ==
    {<<>>,
     <<[type |-> "PCB_MODULE_EDGE_T", layer |-> 0, visible |-> TRUE], TEXTE_MODULE(2, "logo", TRUE)>>,
     <<TEXTE_MODULE(LAYER_ID_COUNT, "stray", TRUE)>>}

Modules ==
    {[reference |-> TEXTE_MODULE(r, "R1", rv), value |-> TEXTE_MODULE(v, "10k", TRUE), graphicalItems |-> g] :
        r \in {0, 1, LAYER_ID_COUNT}, rv \in BOOLEAN,
        v \in {0, 1, LAYER_ID_COUNT, LAYER_ID_COUNT + 1}, g \in GraphicalItems}

\* what the reads beyond the layers of the board may give
Strays == {[bit |-> t, color |-> c] : t \in BOOLEAN, c \in PlotColors}

DrillShapes == {"PAD_DRILL_SHAPE_CIRCLE", "PAD_DRILL_SHAPE_OBLONG"}

DrillSizes == {<<40, 40>>, <<40, 80>>, <<3, 3>>}

PadSizes == {<<100, 100>>, <<30, 90>>}

Boards ==
    {[m_Track |-> v, pads |-> p] :
        v \in {<<>>, <<[start |-> <<5, 5>>, drill |-> 40, width |-> 60]>>},
        p \in {<<>>, <<D_PAD({"F_Cu"}, "PAD_ATTRIB_STANDARD", "PAD_SHAPE_CIRCLE", "PAD_DRILL_SHAPE_OBLONG",
                              <<40, 80>>, <<100, 100>>),
                       D_PAD({"F_Cu"}, "PAD_ATTRIB_SMD", "PAD_SHAPE_RECT", "PAD_DRILL_SHAPE_CIRCLE",
                              <<0, 0>>, <<100, 100>>)>>}}

(***************************************************************************)
(* The plot operations as actions.                                         *)
(***************************************************************************)
\* the plotter before an operation: no call has been made yet
Fresh == [brd EXCEPT !.out = <<>>, !.indexed = <<>>, !.returned = TRUE]

Plot(call, b) ==
    /\ brd' = b
    /\ lastCall' = call
    /\ UNCHANGED <<gal, deleted, script, calls>>

DoPlotPad ==
    \E aPad \in Pads, aColor \in PlotColors :
        /\ Plot(Call("PlotPad", <<aPad, aColor>>), PlotPad(Fresh, aPad, aColor, brd.plotMode))

DoPlotTextModule ==
    \E pt_texte \in Texts, aColor \in TextColors :
        /\ Plot(Call("PlotTextModule", <<pt_texte, aColor>>), PlotTextModule(Fresh, pt_texte, aColor))

DoPlotAllTextsModule ==
    \E aModule \in Modules, stray \in Strays :
        /\ Plot(Call("PlotAllTextsModule", <<aModule>>), PlotAllTextsModule(Fresh, aModule, stray))

DoPlotDimension ==
    \E aDim \in Dimensions :
        /\ Plot(Call("PlotDimension", <<aDim>>), PlotDimension(Fresh, aDim))

DoPlotPcbTarget ==
    \E aMire \in Targets :
        /\ Plot(Call("PlotPcbTarget", <<aMire>>), PlotPcbTarget(Fresh, aMire))

DoPlot_1_EdgeModule ==
    \E aEdge \in Edges :
        /\ Plot(Call("Plot_1_EdgeModule", <<aEdge>>), Plot_1_EdgeModule(Fresh, aEdge))

DoPlotTextePcb ==
    \E pt_texte \in Texts :
        /\ Plot(Call("PlotTextePcb", <<pt_texte>>), PlotTextePcb(Fresh, pt_texte))

DoPlotFilledAreas ==
    \E aZone \in Zones :
        /\ Plot(Call("PlotFilledAreas", <<aZone>>), PlotFilledAreas(Fresh, aZone))

DoPlotDrawSegment ==
    \E aSeg \in DrawSegments :
        /\ Plot(Call("PlotDrawSegment", <<aSeg>>), PlotDrawSegment(Fresh, aSeg))

DoplotOneDrillMark ==
    \E aDrillShape \in DrillShapes, aDrillSize \in DrillSizes, aPadSize \in PadSizes, aSmallDrill \in {0, SMALL_DRILL} :
        /\ Plot(Call("plotOneDrillMark", <<aDrillShape, aDrillSize, aPadSize, aSmallDrill>>),
                plotOneDrillMark(Fresh, aDrillShape, <<0, 0>>, aDrillSize, aPadSize, 0, aSmallDrill))

DoPlotDrillMarks ==
    \E m_board \in Boards :
        /\ Plot(Call("PlotDrillMarks", <<m_board>>), PlotDrillMarks(Fresh, m_board))

\* the plotter is constructed for a board and with the options of a plot
InitPlot ==
    /\ gal = CAIRO_GAL(FALSE, "TARGET_CACHED")
    /\ lastCall = Call("BRDITEMS_PLOTTER", <<>>)
    /\ deleted = {}
    /\ script = NoScript
    /\ calls = 0
    /\ brd \in {BRDITEMS_PLOTTER(m, p, c, 0, "NO_DRILL_SHAPE") :
                   m \in LayerMasks, p \in PlotModes, c \in LayerColors}

NextPlot ==
    \/ DoPlotPad \/ DoPlotTextModule \/ DoPlotDimension \/ DoPlotPcbTarget
    \/ DoPlot_1_EdgeModule \/ DoPlotTextePcb \/ DoPlotFilledAreas \/ DoPlotDrawSegment

SpecPlot == InitPlot /\ [][NextPlot]_vars

\* the plotter is constructed with the options of a plot of drill marks
InitDrill ==
    /\ gal = CAIRO_GAL(FALSE, "TARGET_CACHED")
    /\ lastCall = Call("BRDITEMS_PLOTTER", <<>>)
    /\ deleted = {}
    /\ script = NoScript
    /\ calls = 0
    /\ brd \in {BRDITEMS_PLOTTER({"F_Cu"}, p, [l \in BoardLayers |-> BLUE], w, d) :
                   p \in PlotModes, w \in {0, 5}, d \in {"NO_DRILL_SHAPE", "SMALL_DRILL_SHAPE"}}

NextDrill == DoplotOneDrillMark \/ DoPlotDrillMarks

SpecDrill == InitDrill /\ [][NextDrill]_vars

\* the plotter is constructed with the options of a plot of the texts of
\* footprints
InitTexts ==
    /\ gal = CAIRO_GAL(FALSE, "TARGET_CACHED")
    /\ lastCall = Call("BRDITEMS_PLOTTER", <<>>)
    /\ deleted = {}
    /\ script = NoScript
    /\ calls = 0
    /\ brd \in {[BRDITEMS_PLOTTER(m, "FILLED", c, 0, "NO_DRILL_SHAPE") EXCEPT
                     !.referenceColor = rc, !.valueColor = rc, !.plotInvisibleText = i] :
                   m \in LayerMasks, c \in LayerColors, rc \in {UNSPECIFIED, BLACK}, i \in BOOLEAN}

NextTexts == DoPlotAllTextsModule

SpecTexts == InitTexts /\ [][NextTexts]_vars

(***************************************************************************)
(* The layer mask.                                                         *)
(***************************************************************************)
\* the plot entry points of the board items
PlotEntryPoints ==
    {"PlotPad", "PlotTextModule", "Plot_1_EdgeModule", "PlotTextePcb", "PlotDimension", "PlotPcbTarget",
     "PlotDrawSegment", "PlotFilledAreas"}

\* the layers of the item that a plot call names
ItemLayers(call) ==
    IF call.name = "PlotPad" THEN call.args[1].layerSet ELSE {call.args[1].layer}

\* C21: a plot entry point called for an item whose layer is not in the
\* layer mask has made no call to the plotter.
C21_InvisibleItemIsSkipped ==
    (lastCall.name \in PlotEntryPoints /\ ItemLayers(lastCall) \cap brd.m_layerMask = {}) => brd.out = <<>>

\* PlotPad has flashed a pad none of whose layers is in the layer mask
C21_PadFlashedOffMask ==
    /\ lastCall.name = "PlotPad"
    /\ ItemLayers(lastCall) \cap brd.m_layerMask = {}
    /\ \E i \in 1..Len(brd.out) : brd.out[i].op = "FlashPadCircle"

(***************************************************************************)
(* The metadata of a pad.                                                  *)
(***************************************************************************)
\* the metadata of the flash that PlotPad has made
Flashed == brd.out[Len(brd.out)].gbr_metadata

\* C22: a PAD_ATTRIB_STANDARD pad plotted on copper is flashed as a
\* component pad when the layer mask holds an external copper layer and the
\* pad is on a board technical layer, and as a via pad with the net
\* attribute net+component when the layer mask holds internal copper only.
C22_StandardPadAperture ==
    (/\ lastCall.name = "PlotPad"
     /\ lastCall.args[1].attribute = "PAD_ATTRIB_STANDARD"
     /\ brd.m_layerMask \cap {"F_Cu", "In1_Cu"} # {}) =>
        /\ ("F_Cu" \in brd.m_layerMask /\ "F_Mask" \in lastCall.args[1].layerSet) =>
                Flashed.apertureAttrib = "GBR_APERTURE_ATTRIB_COMPONENTPAD"
        /\ "F_Cu" \notin brd.m_layerMask =>
                /\ Flashed.apertureAttrib = "GBR_APERTURE_ATTRIB_VIAPAD"
                /\ Flashed.netAttribType = {"GBR_NETINFO_NET", "GBR_NETINFO_CMP"}

\* a standard pad that is on a board technical layer has been flashed as a
\* via pad in a plot of the internal copper layer
C22_ViaPadOnInnerLayer ==
    /\ lastCall.name = "PlotPad"
    /\ lastCall.args[1].attribute = "PAD_ATTRIB_STANDARD"
    /\ "F_Mask" \in lastCall.args[1].layerSet
    /\ brd.m_layerMask = {"In1_Cu"}
    /\ Flashed.apertureAttrib = "GBR_APERTURE_ATTRIB_VIAPAD"

\* the aperture attribute of a pad, as the table of the specification gives it
ApertureTable(copper, external, tech, attribute, shape) ==
    IF ~copper THEN "GBR_APERTURE_ATTRIB_NONE"
    ELSE CASE attribute = "PAD_ATTRIB_HOLE_NOT_PLATED" -> "GBR_APERTURE_ATTRIB_WASHERPAD"
           [] attribute = "PAD_ATTRIB_STANDARD" ->
                 IF external /\ tech THEN "GBR_APERTURE_ATTRIB_COMPONENTPAD" ELSE "GBR_APERTURE_ATTRIB_VIAPAD"
           [] attribute = "PAD_ATTRIB_CONN" ->
                 IF external /\ tech THEN "GBR_APERTURE_ATTRIB_CONNECTORPAD"
                 ELSE IF ~tech THEN "GBR_APERTURE_ATTRIB_CONDUCTOR" ELSE "GBR_APERTURE_ATTRIB_NONE"
           [] attribute = "PAD_ATTRIB_SMD" ->
                 IF external /\ tech
                 THEN IF shape = "PAD_SHAPE_CIRCLE" THEN "GBR_APERTURE_ATTRIB_BGAPAD_CUDEF"
                      ELSE "GBR_APERTURE_ATTRIB_SMDPAD_CUDEF"
                 ELSE IF ~tech THEN "GBR_APERTURE_ATTRIB_CONDUCTOR" ELSE "GBR_APERTURE_ATTRIB_NONE"

\* C23: the aperture attribute that PlotPad attaches to the flash is the
\* value the table gives for (plotting copper, plotting external copper,
\* pad on a technical layer, pad attribute, pad shape).
C23_ApertureFollowsTable ==
    lastCall.name = "PlotPad" =>
        Flashed.apertureAttrib =
            ApertureTable(brd.m_layerMask \cap {"F_Cu", "In1_Cu"} # {}, "F_Cu" \in brd.m_layerMask,
                          "F_Mask" \in lastCall.args[1].layerSet,
                          lastCall.args[1].attribute, lastCall.args[1].shape)

\* a connector pad that is on a technical layer has been flashed without an
\* aperture attribute in a plot of the internal copper layer
C23_ConnectorWithoutAttribute ==
    /\ lastCall.name = "PlotPad"
    /\ lastCall.args[1].attribute = "PAD_ATTRIB_CONN"
    /\ "F_Mask" \in lastCall.args[1].layerSet
    /\ brd.m_layerMask = {"In1_Cu"}
    /\ Flashed.apertureAttrib = "GBR_APERTURE_ATTRIB_NONE"

(***************************************************************************)
(* Drill marks.                                                            *)
(***************************************************************************)
\* value, brought into the range from lower to upper
InRange(lower, value, upper) ==
    IF value < lower THEN lower ELSE IF value > upper THEN upper ELSE value

\* C24: plotOneDrillMark flashes a mark of diameter d - compensation brought
\* into the range 1 .. pad size - 1, where d is the smaller of the drill and
\* the small-drill ceiling for a circular drill in small-drill mode and the
\* drill otherwise; a slot is flashed as an oval whose x size is the
\* compensated and clamped drill, without the ceiling, and whose y size is
\* compensated and clamped against the y size of the pad.
C24_DrillMarkSize ==
    lastCall.name = "plotOneDrillMark" =>
        LET aDrillShape == lastCall.args[1]
            drill == lastCall.args[2]
            pad == lastCall.args[3]
            ceiling == lastCall.args[4]
            d == IF aDrillShape = "PAD_DRILL_SHAPE_CIRCLE" /\ ceiling # 0 /\ ceiling < drill[1]
                 THEN ceiling ELSE drill[1]
            x == InRange(1, d - brd.fineWidthAdj, pad[1] - 1)
            y == InRange(1, drill[2] - brd.fineWidthAdj, pad[2] - 1)
        IN  /\ Len(brd.out) = 1
            /\ IF aDrillShape = "PAD_DRILL_SHAPE_OBLONG"
               THEN brd.out[1].op = "FlashPadOval" /\ brd.out[1].args[2] = <<x, y>>
               ELSE brd.out[1].op = "FlashPadCircle" /\ brd.out[1].args[2] = x

\* a circular drill of 40 under a pad of 100 has been flashed with diameter
\* 20, the small-drill ceiling being 25 and the compensation 5
C24_SmallDrillCompensated ==
    /\ lastCall = Call("plotOneDrillMark", <<"PAD_DRILL_SHAPE_CIRCLE", <<40, 40>>, <<100, 100>>, 25>>)
    /\ brd.fineWidthAdj = 5
    /\ brd.out[1].args[2] = 20

(***************************************************************************)
(* Filled zones.                                                           *)
(***************************************************************************)
\* the calls of the last operation that draw
Drawn == SelectSeq(brd.out, LAMBDA c : c.op \notin {"SetColor", "SetCurrentLineWidth"})

\* the kind of each drawing call: the fill type of a PlotPoly, else the method
Kinds == [i \in 1..Len(Drawn) |-> IF Drawn[i].op = "PlotPoly" THEN Drawn[i].args[2] ELSE Drawn[i].op]

\* the zone that the last call has plotted
Zone == lastCall.args[1]

Repeat(n, kind) == [i \in 1..n |-> kind]

\* the contour, with a copy of its first corner appended unless it is closed
Closed(contour) ==
    IF contour[1] # contour[Len(contour)] THEN Append(contour, contour[1]) ELSE contour

\* C25: in filled plot mode with solid fill, PlotFilledAreas makes one
\* filled PlotPoly call for each contour of the filled polygons and no other
\* drawing call, in particular no outline stroke.
C25_OneFilledPolygonPerContour ==
    (lastCall.name = "PlotFilledAreas" /\ brd.plotMode = "FILLED" /\ Zone.fillMode = 0) =>
        Kinds = Repeat(Len(Zone.polysList), "FILLED_SHAPE")

\* a zone of one closed triangle and of min thickness 0 has been plotted as
\* one filled polygon
C25_TriangleAsOnePolygon ==
    /\ lastCall.name = "PlotFilledAreas" /\ brd.plotMode = "FILLED" /\ Zone.fillMode = 0
    /\ Zone.minThickness = 0
    /\ Zone.polysList = <<<<<<0, 0>>, <<4, 0>>, <<0, 4>>, <<0, 0>>>>>>
    /\ Len(Drawn) = 1 /\ Drawn[1].op = "PlotPoly" /\ Drawn[1].args[2] = "FILLED_SHAPE"

RECURSIVE OverContours(_, _)
\* the drawing calls of the contours from the ic-th on, each contour being
\* drawn by the calls of the kinds that Of gives for it
OverContours(Of(_), ic) ==
    IF ic > Len(Zone.polysList) THEN <<>> ELSE Of(Zone.polysList[ic]) \o OverContours(Of, ic + 1)

\* C26 as stated: in filled plot mode the fill of each contour is followed
\* by an outline stroke exactly when the min thickness is not zero; in
\* non-filled plot mode the contour is a chain of thick segments.
C26_OutlineFollowsEveryFill ==
    lastCall.name = "PlotFilledAreas" =>
        LET fill == IF Zone.fillMode = 0 THEN <<"FILLED_SHAPE">>
                    ELSE Repeat(Len(Zone.fillSegments), "ThickSegment")
            outline == IF Zone.minThickness # 0 THEN <<"NO_FILL">> ELSE <<>>
            Filled(contour) == fill \o outline
            Chain(contour) == Repeat(Len(Closed(contour)) - 1, "ThickSegment")
        IN  Kinds = IF brd.plotMode = "FILLED" THEN OverContours(Filled, 1) ELSE OverContours(Chain, 1)

\* C26: in filled plot mode a solid fill is one filled polygon, drawn with
\* the min thickness as its line width, that no outline stroke follows; a
\* segment fill is followed by an outline stroke of the contour exactly when
\* the min thickness is greater than zero; in non-filled plot mode the
\* contour is a chain of thick segments between consecutive corners when the
\* min thickness is greater than zero, and no drawing call otherwise.
C26_OutlineFollowsSegmentFill ==
    lastCall.name = "PlotFilledAreas" =>
        LET outline == IF Zone.minThickness > 0 THEN <<"NO_FILL">> ELSE <<>>
            Filled(contour) == IF Zone.fillMode = 0 THEN <<"FILLED_SHAPE">>
                               ELSE Repeat(Len(Zone.fillSegments), "ThickSegment") \o outline
            Chain(contour) == IF Zone.minThickness > 0
                              THEN Repeat(Len(Closed(contour)) - 1, "ThickSegment") ELSE <<>>
        IN  /\ Kinds = IF brd.plotMode = "FILLED" THEN OverContours(Filled, 1) ELSE OverContours(Chain, 1)
            /\ \A i \in 1..Len(Drawn) :
                   Drawn[i].op = "PlotPoly" => Drawn[i].args[3] = Zone.minThickness

\* the fill segments of a zone of min thickness 2 have been followed by the
\* outline stroke of its contour
C26_SegmentsThenOutline ==
    /\ lastCall.name = "PlotFilledAreas" /\ brd.plotMode = "FILLED" /\ Zone.fillMode = 1
    /\ Zone.minThickness = 2
    /\ Len(Zone.polysList) = 1
    /\ Kinds = <<"ThickSegment", "ThickSegment", "NO_FILL">>

RECURSIVE Links(_, _)
\* the ends of the segments of the chain through the corners from the jj-th on
Links(corners, jj) ==
    IF jj > Len(corners) THEN <<>> ELSE <<<<corners[jj - 1], corners[jj]>>>> \o Links(corners, jj + 1)

\* C27: every polygon that PlotFilledAreas plots is the closed ring of the
\* corners of one contour, the contours being taken in their order, and the
\* thick segments of non-filled mode are the chains through these rings; the
\* corner buffer is empty after every operation, so that no corner is carried
\* over to the next contour or the next call.
C27_RingsOfOneContour ==
    /\ brd.cornerList = <<>>
    /\ lastCall.name = "PlotFilledAreas" =>
           LET polys == SelectSeq(brd.out, LAMBDA c : c.op = "PlotPoly")
               rings == [ic \in 1..Len(Zone.polysList) |-> Closed(Zone.polysList[ic])]
               Ring(contour) == Links(Closed(contour), 2)
           IN  /\ \A i \in 1..Len(polys) :
                      polys[i].args[1][1] = polys[i].args[1][Len(polys[i].args[1])]
               /\ polys # <<>> => [i \in 1..Len(polys) |-> polys[i].args[1]] = rings
               /\ (brd.plotMode # "FILLED" /\ Zone.minThickness > 0) =>
                      [i \in 1..Len(Drawn) |-> <<Drawn[i].args[1], Drawn[i].args[2]>>] = OverContours(Ring, 1)

\* an open square and a closed triangle have been plotted as a ring of five
\* and a ring of four corners
C27_SecondRingStartsAfresh ==
    /\ lastCall.name = "PlotFilledAreas" /\ brd.plotMode = "FILLED" /\ Zone.fillMode = 0
    /\ Len(Zone.polysList) = 2
    /\ Len(Drawn) = 2
    /\ Len(Drawn[1].args[1]) = 5 /\ Drawn[1].args[1][5] = Zone.polysList[1][1]
    /\ Drawn[2].args[1] = Zone.polysList[2]

(***************************************************************************)
(* Targets and dimensions.                                                 *)
(***************************************************************************)
\* the ends of the thick segment that a call draws
Ends(c) == <<c.args[1], c.args[2]>>

\* C28: PlotPcbTarget of a target of size s whose layer is in the layer mask
\* draws one circle and then two segments: the circle has the radius s / 2
\* when the shape flag is set and s / 3 when it is not; the segments reach
\* s / 2 from the centre in x and in y along the two diagonals when the flag
\* is set, and along the x axis and the y axis when it is not.
C28_CircleThenCross ==
    (lastCall.name = "PlotPcbTarget" /\ lastCall.args[1].layer \in brd.m_layerMask) =>
        LET aMire == lastCall.args[1]
            x == aMire.pos[1]
            y == aMire.pos[2]
            h == aMire.size \div 2
            radius == IF aMire.shape # 0 THEN aMire.size \div 2 ELSE aMire.size \div 3
        IN  /\ Kinds = <<"ThickCircle", "ThickSegment", "ThickSegment">>
            /\ Drawn[1].args[1] = aMire.pos /\ Drawn[1].args[2] = 2 * radius
            /\ IF aMire.shape # 0
               THEN /\ Ends(Drawn[2]) = <<<<x - h, y - h>>, <<x + h, y + h>>>>
                    /\ Ends(Drawn[3]) = <<<<x - h, y + h>>, <<x + h, y - h>>>>
               ELSE /\ Ends(Drawn[2]) = <<<<x - h, y>>, <<x + h, y>>>>
                    /\ Ends(Drawn[3]) = <<<<x, y - h>>, <<x, y + h>>>>

\* a target of size 31 without the shape flag has been plotted as a circle
\* of radius 10 and the two arms of a plus of half-length 15
C28_PlusOfSize31 ==
    /\ lastCall.name = "PlotPcbTarget" /\ lastCall.args[1].layer \in brd.m_layerMask
    /\ lastCall.args[1].size = 31 /\ lastCall.args[1].shape = 0
    /\ Len(Drawn) = 3 /\ Drawn[1].args[2] = 20
    /\ Ends(Drawn[2]) = <<<<35, 50>>, <<65, 50>>>>

\* the seven segments of a dimension, in the order the claim gives
DimensionSegments(aDim) ==
    << <<aDim.m_crossBarO, aDim.m_crossBarF>>,
       <<aDim.m_featureLineGO, aDim.m_featureLineGF>>,
       <<aDim.m_featureLineDO, aDim.m_featureLineDF>>,
       <<aDim.m_crossBarF, aDim.m_arrowD1F>>, <<aDim.m_crossBarF, aDim.m_arrowD2F>>,
       <<aDim.m_crossBarO, aDim.m_arrowG1F>>, <<aDim.m_crossBarO, aDim.m_arrowG2F>> >>

\* the drawing calls are texts Text calls and then the seven segments of the
\* dimension, each a ThickSegment of the width of the dimension
TextsThenSegments(aDim, texts) ==
    /\ Len(Drawn) = texts + 7
    /\ \A i \in 1..texts : Drawn[i].op = "Text"
    /\ \A i \in 1..7 :
           /\ Drawn[texts + i].op = "ThickSegment"
           /\ Ends(Drawn[texts + i]) = DimensionSegments(aDim)[i]
           /\ Drawn[texts + i].args[3] = aDim.width

\* C29 as stated: PlotDimension of a dimension whose layer is in the layer
\* mask draws the text label and then the seven segments.
C29_TextThenSevenSegments ==
    (lastCall.name = "PlotDimension" /\ lastCall.args[1].layer \in brd.m_layerMask) =>
        \E texts \in 1..2 : TextsThenSegments(lastCall.args[1], texts)

\* C29: PlotDimension of a dimension whose layer is in the layer mask draws
\* the text label first, one Text call for a text of one line or for each
\* line of a multiline text, when the shown text is not empty and the layer
\* of the text is in the layer mask, and no text otherwise; it then draws
\* the seven thick segments of the width of the dimension, in the order
\* crossbar, feature line G, feature line D, the two arrow legs from the end
\* of the crossbar, the two arrow legs from its origin.
C29_LabelIfShownThenSevenSegments ==
    (lastCall.name = "PlotDimension" /\ lastCall.args[1].layer \in brd.m_layerMask) =>
        LET m_Text == lastCall.args[1].m_Text
            texts == IF m_Text.text = <<>> \/ m_Text.layer \notin brd.m_layerMask THEN 0
                     ELSE IF m_Text.multiline THEN Len(m_Text.text) ELSE 1
        IN  TextsThenSegments(lastCall.args[1], texts)

\* a dimension with a label of one line has been plotted as the text and the
\* seven segments
C29_LabelAndSevenSegments ==
    /\ lastCall.name = "PlotDimension" /\ lastCall.args[1].layer \in brd.m_layerMask
    /\ lastCall.args[1].m_Text.text = <<"R1">>
    /\ Len(Drawn) = 8 /\ Drawn[1].op = "Text" /\ Drawn[8].op = "ThickSegment"

(***************************************************************************)
(* Colours.                                                                *)
(***************************************************************************)
\* the colours that the plot call may ask for: the colour that the caller
\* gives, or the colours of the layers of the item and of its text
AskedColors(call) ==
    IF call.name \in {"PlotPad", "PlotTextModule"} THEN {call.args[2]}
    ELSE IF call.name = "PlotDimension"
         THEN {brd.layerColor[call.args[1].layer], brd.layerColor[call.args[1].m_Text.layer]}
         ELSE {brd.layerColor[call.args[1].layer]}

\* C30: every colour that a plot operation of a board item passes to
\* SetColor is the colour of the layer, or the colour the caller gives,
\* unless that colour is pure white, for which light gray is passed; pure
\* white is never passed.
C30_WhiteIsPlottedLightGray ==
    lastCall.name \in PlotEntryPoints =>
        \A i \in 1..Len(brd.out) :
            brd.out[i].op = "SetColor" =>
                /\ brd.out[i].args[1] # [r |-> 255, g |-> 255, b |-> 255, a |-> 255]
                /\ \E color \in AskedColors(lastCall) :
                       brd.out[i].args[1] = IF color = [r |-> 255, g |-> 255, b |-> 255, a |-> 255]
                                            THEN [r |-> 194, g |-> 194, b |-> 194, a |-> 255] ELSE color

\* a draw segment on a layer of pure white colour has been plotted in light
\* gray
C30_WhiteLayerInLightGray ==
    /\ lastCall.name = "PlotDrawSegment"
    /\ brd.layerColor[lastCall.args[1].layer] = [r |-> 255, g |-> 255, b |-> 255, a |-> 255]
    /\ brd.out # <<>>
    /\ brd.out[1].op = "SetColor" /\ brd.out[1].args[1] = [r |-> 194, g |-> 194, b |-> 194, a |-> 255]

(***************************************************************************)
(* Footprint edges.                                                        *)
(***************************************************************************)
\* the footprint edge that the last call plots
Edge == lastCall.args[1]

\* C31: a footprint polygon edge with 0 or 1 points emits no primitive; one
\* with n >= 2 points emits exactly one polygon call with n corners in input
\* order, each corner being the input point rotated by the footprint
\* orientation and then translated by the footprint position.
C31_PolygonEdgeCorners ==
    (lastCall.name = "Plot_1_EdgeModule" /\ Edge.shape = "S_POLYGON") =>
        IF Len(Edge.polyPoints) <= 1 THEN Drawn = <<>>
        ELSE /\ Len(Drawn) = 1
             /\ Drawn[1].op = "PlotPoly"
             /\ Len(Drawn[1].args[1]) = Len(Edge.polyPoints)
             /\ \A ii \in 1..Len(Edge.polyPoints) :
                    LET rotated == RotatePoint(Edge.polyPoints[ii], Edge.module.orientation)
                    IN  Drawn[1].args[1][ii] =
                            <<rotated[1] + Edge.module.pos[1], rotated[2] + Edge.module.pos[2]>>

\* a polygon edge of three points has been plotted as one polygon whose
\* second corner is the rotated and moved second point
C31_TrianglePlotted ==
    /\ lastCall.name = "Plot_1_EdgeModule" /\ Edge.shape = "S_POLYGON"
    /\ Len(Edge.polyPoints) = 3
    /\ Len(Drawn) = 1 /\ Drawn[1].args[1][2] = <<10, 6>>

\* a polygon edge of a single point has been plotted as nothing
C31_MalformedSkipped ==
    /\ lastCall.name = "Plot_1_EdgeModule" /\ Edge.shape = "S_POLYGON"
    /\ Len(Edge.polyPoints) = 1
    /\ Drawn = <<>>

(***************************************************************************)
(* The metadata of zones.                                                  *)
(***************************************************************************)
\* C32: every primitive PlotFilledAreas emits for a zone on a copper layer,
\* the outline stroke included, carries the metadata record of the zone:
\* the non-conductor aperture attribute and no net attribute when the net
\* name of the zone is empty, the conductor aperture attribute with the net
\* attribute kind 'net' and the net name of the zone otherwise.
C32_ZoneMetadataOnEveryPrimitive ==
    (lastCall.name = "PlotFilledAreas" /\ Zone.layer \in AllCuMask) =>
        \A i \in 1..Len(Drawn) :
            /\ ~Drawn[i].gbr_metadata.null
            /\ IF Zone.netname = ""
               THEN /\ Drawn[i].gbr_metadata.apertureAttrib = "GBR_APERTURE_ATTRIB_NONCONDUCTOR"
                    /\ Drawn[i].gbr_metadata.netAttribType = {}
               ELSE /\ Drawn[i].gbr_metadata.apertureAttrib = "GBR_APERTURE_ATTRIB_CONDUCTOR"
                    /\ Drawn[i].gbr_metadata.netAttribType = {"GBR_NETINFO_NET"}
                    /\ Drawn[i].gbr_metadata.netName = Zone.netname

\* the outline of a copper zone of the net GND that is filled by segments
\* has been stroked without metadata, after fill segments that carry it
C32_OutlineWithoutMetadata ==
    /\ lastCall.name = "PlotFilledAreas" /\ Zone.layer \in AllCuMask /\ Zone.netname = "GND"
    /\ Len(Drawn) = 3
    /\ Drawn[1].op = "ThickSegment" /\ Drawn[1].gbr_metadata.netName = "GND"
    /\ Drawn[3].op = "PlotPoly" /\ Drawn[3].args[2] = "NO_FILL" /\ Drawn[3].gbr_metadata.null

(***************************************************************************)
(* The group that is being recorded.                                       *)
(***************************************************************************)
\* C33: in every reachable state, if the context is in grouping mode then
\* the current group is a live entry of the group table, so that no command
\* is appended to a group that has been deleted.
C33_CurrentGroupIsLive ==
    gal.isGrouping => (~gal.dangling /\ gal.currentGroup \in DOMAIN gal.groups)

\* DeleteGroup has erased the group that is being recorded: the context is
\* in grouping mode and currentGroup points to no entry of the table
C33_CurrentGroupDeleted ==
    /\ lastCall.name = "DeleteGroup" /\ lastCall.args[1] = gal.currentGroup
    /\ gal.isGrouping /\ gal.dangling
    /\ gal.currentGroup \notin DOMAIN gal.groups

(***************************************************************************)
(* The surface during a drawing pass.                                      *)
(***************************************************************************)
\* C34: between BeginDrawing and the matching EndDrawing the render surface
\* stays initialized whatever group operations are called in between: a
\* BeginGroup/EndGroup pair inside the pass does not destroy the context
\* that later draw operations and the EndDrawing of the pass use.
C34_SurfaceLivesThroughPass ==
    InDrawingPass => (gal.isInitialized /\ gal.ctx.status # "DESTROYED")

\* EndGroup, called inside a drawing pass after a BeginGroup of the pass, has
\* destroyed the context of the pass
C34_EndGroupDestroysSurface ==
    /\ InDrawingPass /\ lastCall.name = "EndGroup"
    /\ DOMAIN gal.groups # {}
    /\ ~gal.isInitialized /\ gal.ctx.status = "DESTROYED"

(***************************************************************************)
(* The aperture attribute of footprint edges.                              *)
(***************************************************************************)
\* C35: a footprint edge on the Edge_Cuts layer is given the non-conductor
\* aperture attribute also when copper layers are being plotted; a footprint
\* edge on any other layer gets the etched-component attribute when copper
\* layers are plotted and no aperture attribute otherwise.
C35_EdgeCutsIsNonConductor ==
    lastCall.name = "Plot_1_EdgeModule" =>
        \A i \in 1..Len(Drawn) :
            Drawn[i].gbr_metadata.apertureAttrib =
                IF Edge.layer = "Edge_Cuts" THEN "GBR_APERTURE_ATTRIB_NONCONDUCTOR"
                ELSE IF brd.m_layerMask \cap AllCuMask # {} THEN "GBR_APERTURE_ATTRIB_ETCHEDCMP"
                     ELSE "GBR_APERTURE_ATTRIB_NONE"

\* a footprint segment on Edge_Cuts, plotted together with a copper layer,
\* has been given the etched-component attribute
C35_EdgeCutsEtchedOnCopper ==
    /\ lastCall.name = "Plot_1_EdgeModule" /\ Edge.layer = "Edge_Cuts"
    /\ brd.m_layerMask \cap AllCuMask # {}
    /\ Len(Drawn) = 1 /\ Drawn[1].op = "ThickSegment"
    /\ Drawn[1].gbr_metadata.apertureAttrib = "GBR_APERTURE_ATTRIB_ETCHEDCMP"

(***************************************************************************)
(* The texts of a footprint.                                               *)
(***************************************************************************)
\* the footprint whose texts the last call plots
Module == lastCall.args[1]

\* the colours of the Text calls that plot the given text
TextColorsOf(text) ==
    {brd.out[i].args[2] : i \in {j \in 1..Len(brd.out) : brd.out[j].op = "Text" /\ brd.out[j].args[3] = text}}

\* C36: when no explicit reference or value colour is configured,
\* PlotAllTextsModule plots the reference text of the footprint in the colour
\* of the layer of the reference text and the value text in the colour of
\* the layer of the value text, also when the two are on different layers.
C36_TextInColourOfItsOwnLayer ==
    (/\ lastCall.name = "PlotAllTextsModule"
     /\ brd.referenceColor = UNSPECIFIED /\ brd.valueColor = UNSPECIFIED
     /\ Module.reference.layer < LAYER_ID_COUNT /\ Module.value.layer < LAYER_ID_COUNT) =>
        /\ TextColorsOf(Module.reference.text) \subseteq {getColor(brd, LayerIds[Module.reference.layer + 1])}
        /\ TextColorsOf(Module.value.text) \subseteq {getColor(brd, LayerIds[Module.value.layer + 1])}

\* the reference text on the white layer F_Cu has been plotted in the blue
\* of In1_Cu, the layer of the value text
C36_ReferenceInColourOfValueLayer ==
    /\ lastCall.name = "PlotAllTextsModule"
    /\ brd.referenceColor = UNSPECIFIED /\ brd.valueColor = UNSPECIFIED
    /\ Module.reference.layer = 0 /\ Module.value.layer = 1
    /\ brd.layerColor["F_Cu"] = WHITE /\ brd.layerColor["In1_Cu"] = BLUE
    /\ TextColorsOf(Module.reference.text) = {BLUE}

\* C37: PlotAllTextsModule never indexes the layer mask with a layer >=
\* LAYER_ID_COUNT: for a footprint whose reference, value or visible
\* graphical text has such a layer it returns false before that layer is
\* used as an index of the mask.
C37_MaskIndexInRange ==
    lastCall.name = "PlotAllTextsModule" =>
        /\ \A i \in 1..Len(brd.indexed) : brd.indexed[i] < LAYER_ID_COUNT
        /\ (\/ Module.reference.layer >= LAYER_ID_COUNT
            \/ Module.value.layer >= LAYER_ID_COUNT
            \/ \E i \in 1..Len(Module.graphicalItems) :
                   /\ Module.graphicalItems[i].type = "PCB_MODULE_TEXT_T"
                   /\ Module.graphicalItems[i].visible
                   /\ Module.graphicalItems[i].layer >= LAYER_ID_COUNT) => ~brd.returned

\* the mask has been indexed with LAYER_ID_COUNT, the layer of the value
\* text, and the call has returned true
C37_MaskIndexedWithLayerCount ==
    /\ lastCall.name = "PlotAllTextsModule"
    /\ Module.value.layer = LAYER_ID_COUNT
    /\ \E i \in 1..Len(brd.indexed) : brd.indexed[i] = LAYER_ID_COUNT
    /\ brd.returned

(***************************************************************************)
(* The drill marks of a board.                                             *)
(***************************************************************************)
\* the positions of the holes of the board: those of the vias, then those
\* of the pads that are drilled
Holes(m_board) ==
    [i \in 1..Len(m_board.m_Track) |-> m_board.m_Track[i].start]
        \o [i \in 1..Len(SelectSeq(m_board.pads, LAMBDA pad : pad.drillSize[1] # 0)) |->
               SelectSeq(m_board.pads, LAMBDA pad : pad.drillSize[1] # 0)[i].pos]

\* C38: PlotDrillMarks in filled plot mode sets the plot colour to white
\* before the first drill mark and restores the configured plot colour
\* after the last one, and in any other plot mode never changes the colour;
\* in both modes it flashes exactly one mark per via and one per pad whose
\* drill x size is nonzero, all vias before all pads.
C38_WhiteMarksViasThenPads ==
    lastCall.name = "PlotDrillMarks" =>
        LET marks == IF brd.plotMode = "FILLED" THEN SubSeq(brd.out, 2, Len(brd.out) - 1) ELSE brd.out
            holes == Holes(lastCall.args[1])
        IN  /\ brd.plotMode = "FILLED" =>
                   /\ Len(brd.out) >= 2
                   /\ brd.out[1].op = "SetColor" /\ brd.out[1].args[1] = WHITE
                   /\ brd.out[Len(brd.out)].op = "SetColor" /\ brd.out[Len(brd.out)].args[1] = brd.color
            /\ Len(marks) = Len(holes)
            /\ \A i \in 1..Len(marks) :
                   /\ marks[i].op \in {"FlashPadCircle", "FlashPadOval"}
                   /\ marks[i].args[1] = holes[i]

\* the marks of a board with a via, a pad with a slot and a pad without a
\* hole have been plotted in white: the via, then the slot
C38_ViaThenSlotInWhite ==
    /\ lastCall.name = "PlotDrillMarks" /\ brd.plotMode = "FILLED"
    /\ Len(lastCall.args[1].m_Track) = 1 /\ Len(lastCall.args[1].pads) = 2
    /\ Len(brd.out) = 4
    /\ brd.out[2].op = "FlashPadCircle" /\ brd.out[3].op = "FlashPadOval"

(***************************************************************************)
(* The fill segments of a zone.                                            *)
(***************************************************************************)
\* the thick segments among the drawing calls of the last operation
FillCalls == SelectSeq(Drawn, LAMBDA c : c.op = "ThickSegment")

\* C39: in filled plot mode with segment fill, PlotFilledAreas emits the
\* whole list of fill segments of the zone once for every contour of the
\* filled polygons: a zone with k contours and n fill segments produces k*n
\* thick segment calls for the fill.
C39_FillSegmentsPerContour ==
    (lastCall.name = "PlotFilledAreas" /\ brd.plotMode = "FILLED" /\ Zone.fillMode # 0) =>
        LET n == Len(Zone.fillSegments)
        IN  /\ Len(FillCalls) = Len(Zone.polysList) * n
            /\ \A i \in 1..Len(FillCalls) :
                   /\ FillCalls[i].args[1] = Zone.fillSegments[((i - 1) % n) + 1][1]
                   /\ FillCalls[i].args[2] = Zone.fillSegments[((i - 1) % n) + 1][2]

\* a zone of two contours and two fill segments has been filled by four
\* thick segments
C39_TwoContoursFourSegments ==
    /\ lastCall.name = "PlotFilledAreas" /\ brd.plotMode = "FILLED" /\ Zone.fillMode # 0
    /\ Len(Zone.polysList) = 2 /\ Len(Zone.fillSegments) = 2
    /\ Len(FillCalls) = 4
    /\ FillCalls[3].args[1] = Zone.fillSegments[1][1]

(***************************************************************************)
(* The backup of the screen.                                               *)
(***************************************************************************)
\* C40: SaveScreen followed by arbitrary changes to the bitmap buffer and
\* then RestoreScreen restores every word of the bitmap buffer to its value
\* at SaveScreen time, and neither operation reads or writes an index
\* outside the allocated buffer of stride * screenHeight words, for every
\* screen size.
C40_ScreenRestoredWithinBuffer ==
    /\ lastCall.name \in {"SaveScreen", "RestoreScreen"} =>
           \A k \in gal.touched : 0 <= k /\ k < gal.stride * gal.screenSize[2]
    /\ (lastCall.name = "RestoreScreen" /\ DOMAIN gal.atSave # {}) =>
           \A k \in DOMAIN gal.bitmapBuffer : gal.bitmapBuffer[k] = gal.atSave[k]

\* RestoreScreen, on a screen of 4 by 2 pixels, has visited indexes beyond
\* the 32 words of the buffer and has left word 1, painted after SaveScreen,
\* as painted
C40_WordNotRestored ==
    /\ lastCall.name = "RestoreScreen" /\ gal.screenSize = <<4, 2>> /\ gal.bufferSize = 32
    /\ \E k \in gal.touched : k >= gal.bufferSize
    /\ DOMAIN gal.atSave # {}
    /\ gal.atSave[1] = 0 /\ gal.bitmapBuffer[1] = 1
    /\ gal.bitmapBuffer[17] = gal.atSave[17]

====
